---- MODULE Spec2Model ----
(***************************************************************************)
(* Signal aggregation (collectSignals), page-importance ranking            *)
(* (pickImportantLinks, selectImportantPages) and contact merging of the   *)
(* lead pipeline.                                                          *)
(*                                                                         *)
(* Conventions of the model                                                *)
(*  - JavaScript strings are TLA+ strings; substring tests, prefixes and   *)
(*    lower-casing are computed character by character.                    *)
(*  - JavaScript null is the value Null.                                   *)
(*  - Confidences are kept in hundredths (0.95 is 95).                     *)
(*  - A page's markup is kept in parsed form (what cheerio.load gives the  *)
(*    selectors): its script tags, anchors, JSON-LD blocks, attributes,    *)
(*    forms, iframes and text regions.                                     *)
(***************************************************************************)
EXTENDS Integers, Sequences, FiniteSets, TLC

Null == "null"

\* ------------------------------------------------------------------------
\* Bounds of the enumerated inputs
\* ------------------------------------------------------------------------
MaxHrefs == 3

MaxHomeHrefs == 2

\* longest list of technology hits handed to deduplicateTechnologies
MaxHits == 3

\* most response headers of a page
MaxHeaders == 2

\* longest list of phones handed to deduplicatePhones
MaxPhones == 3

\* ------------------------------------------------------------------------
\* String primitives
\* ------------------------------------------------------------------------
Char(s, i) == SubSeq(s, i, i)

Drop(s, n) == SubSeq(s, n + 1, Len(s))

StartsWith(s, p) == Len(p) <= Len(s) /\ SubSeq(s, 1, Len(p)) = p

EndsWith(s, p) == Len(p) <= Len(s) /\ SubSeq(s, Len(s) - Len(p) + 1, Len(s)) = p

Includes(s, kw) == \E i \in 1..(Len(s) - Len(kw) + 1) : SubSeq(s, i, i + Len(kw) - 1) = kw

LowerChars == "abcdefghijklmnopqrstuvwxyz"

LowerOf == [A |-> "a", B |-> "b", C |-> "c", D |-> "d", E |-> "e", F |-> "f", G |-> "g", H |-> "h", I |-> "i", J |-> "j", K |-> "k", L |-> "l", M |-> "m", N |-> "n", O |-> "o", P |-> "p", Q |-> "q", R |-> "r", S |-> "s", T |-> "t", U |-> "u", V |-> "v", W |-> "w", X |-> "x", Y |-> "y", Z |-> "z"]

LowerChar(c) == IF c \in DOMAIN LowerOf THEN LowerOf[c] ELSE c

RECURSIVE toLowerCase(_)
toLowerCase(s) == IF s = "" THEN "" ELSE IF Len(s) = 1 THEN LowerChar(s) ELSE toLowerCase(SubSeq(s, 1, Len(s) \div 2)) \o toLowerCase(Drop(s, Len(s) \div 2))

\* index of the first character of s that is one of the characters of stops,
\* Len(s) + 1 when there is none
RECURSIVE ScanFor(_, _, _)
ScanFor(s, stops, i) == IF i > Len(s) THEN Len(s) + 1 ELSE IF Includes(stops, Char(s, i)) THEN i ELSE ScanFor(s, stops, i + 1)

FirstOf(s, stops) == ScanFor(s, stops, 1)

RECURSIVE SeqToSet(_)
SeqToSet(q) == IF q = <<>> THEN {} ELSE {Head(q)} \cup SeqToSet(Tail(q))

SeqsUpTo(S, n) == UNION {[1..k -> S] : k \in 0..n}

\* ------------------------------------------------------------------------
\* URL resolution: what `new URL(href, base)`, `.toString()` and `.host` give
\* for the forms of href the inputs contain (absolute http/https, other
\* schemes, protocol-relative, root-relative, fragment and path-relative).
\* A URL string that does not parse is reported as Null (the constructor
\* throws and every caller catches).
\* ------------------------------------------------------------------------
\* a `const x = e`: e is computed once and the value is used from then on
Only(S) == CHOOSE r \in S : TRUE

ForbiddenHostChars == " <>[]^|"

HasForbiddenHostChar(h) == \E i \in 1..Len(h) : Includes(ForbiddenHostChars, Char(h, i))

StripDefaultPort(scheme, authority) == IF scheme = "https" /\ EndsWith(authority, ":443") THEN SubSeq(authority, 1, Len(authority) - 4) ELSE IF scheme = "http" /\ EndsWith(authority, ":80") THEN SubSeq(authority, 1, Len(authority) - 3) ELSE authority

\* the part after "scheme://" of an http(s) URL: authority up to the first of / ? #
ParseSpecial(scheme, after) ==
  LET cut == FirstOf(after, "/?#")
      authority == SubSeq(after, 1, cut - 1)
      tail == Drop(after, cut - 1)
      host == toLowerCase(StripDefaultPort(scheme, authority))
  IN  IF authority = "" \/ HasForbiddenHostChar(authority) \/ host = ""
      THEN [ok |-> FALSE, scheme |-> scheme, host |-> "", rest |-> ""]
      ELSE [ok |-> TRUE, scheme |-> scheme, host |-> host, rest |-> IF tail = "" \/ ~StartsWith(tail, "/") THEN "/" \o tail ELSE tail]

OpaqueSchemes == <<"mailto:", "tel:", "javascript:">>

\* the scheme is matched case-insensitively
HasPrefixCI(s, p) == Len(p) <= Len(s) /\ toLowerCase(SubSeq(s, 1, Len(p))) = p

HasOpaqueScheme(s) == \E k \in 1..Len(OpaqueSchemes) : HasPrefixCI(s, OpaqueSchemes[k])

HasScheme(s) == HasPrefixCI(s, "https://") \/ HasPrefixCI(s, "http://") \/ HasOpaqueScheme(s)

\* new URL(s) of a string that carries its own scheme
ParseAbsolute(s) ==
  IF HasPrefixCI(s, "https://") THEN ParseSpecial("https", Drop(s, 8))
  ELSE IF HasPrefixCI(s, "http://") THEN ParseSpecial("http", Drop(s, 7))
  ELSE IF HasOpaqueScheme(s) THEN [ok |-> TRUE, scheme |-> toLowerCase(SubSeq(s, 1, FirstOf(s, ":") - 1)), host |-> "", rest |-> Drop(s, FirstOf(s, ":"))]
  ELSE [ok |-> FALSE, scheme |-> "", host |-> "", rest |-> ""]

\* directory of a path: everything up to and including the last "/" before
\* any query or fragment
RECURSIVE LastSlash(_, _)
LastSlash(p, n) == IF n = 0 THEN 0 ELSE IF Char(p, n) = "/" THEN n ELSE LastSlash(p, n - 1)

DirOf(rest) == LET path == SubSeq(rest, 1, FirstOf(rest, "?#") - 1) IN SubSeq(path, 1, LastSlash(path, Len(path)))

\* new URL(href, base)
ParseUrl(href, base) ==
  IF HasScheme(href) THEN ParseAbsolute(href)
  ELSE Only({ IF ~b.ok \/ b.host = "" THEN [ok |-> FALSE, scheme |-> "", host |-> "", rest |-> ""]
               ELSE IF StartsWith(href, "//") THEN ParseSpecial(b.scheme, Drop(href, 2))
               ELSE IF StartsWith(href, "/") THEN [b EXCEPT !.rest = href]
               ELSE IF href = "" THEN b
               ELSE IF StartsWith(href, "#") THEN [b EXCEPT !.rest = SubSeq(b.rest, 1, FirstOf(b.rest, "#") - 1) \o href]
               ELSE IF StartsWith(href, "?") THEN [b EXCEPT !.rest = SubSeq(b.rest, 1, FirstOf(b.rest, "?#") - 1) \o href]
               ELSE [b EXCEPT !.rest = DirOf(b.rest) \o href]
             : b \in {ParseAbsolute(base)} })

\* URL.prototype.toString
UrlToString(u) == IF u.host = "" THEN u.scheme \o ":" \o u.rest ELSE u.scheme \o "://" \o u.host \o u.rest

\* try { return new URL(href, base).toString() } catch { return null }
resolveUrl(baseUrl, href) == Only({ IF u.ok THEN UrlToString(u) ELSE Null : u \in {ParseUrl(href, baseUrl)} })

\* new URL(url).host of an absolute URL string; Null when the constructor throws
HostOf(url) == Only({ IF u.ok THEN u.host ELSE Null : u \in {ParseAbsolute(url)} })

IsAbsoluteUrl(url) == ParseAbsolute(url).ok

\* ------------------------------------------------------------------------
\* List helpers of the ranking code
\* ------------------------------------------------------------------------
RECURSIVE DedupFirst(_, _)
DedupFirst(q, seen) == Only({ IF s = <<>> THEN <<>> ELSE IF Head(s) \in seen THEN DedupFirst(Tail(s), seen) ELSE <<Head(s)>> \o DedupFirst(Tail(s), seen \cup {Head(s)}) : s \in {q} })

\* utils/uniq.js: order-preserving removal of duplicates and of falsy entries
uniq(arr) == DedupFirst(SelectSeq(arr, LAMBDA x : x # Null /\ x # ""), {})

\* [...new Set(arr)]
unique(arr) == DedupFirst(arr, {})

Slice(q, n) == Only({ SubSeq(s, 1, IF Len(s) < n THEN Len(s) ELSE n) : s \in {q} })

\* entries.map(e => e.url)
RECURSIVE Urls(_)
Urls(q) == Only({ IF s = <<>> THEN <<>> ELSE <<Head(s).url>> \o Urls(Tail(s)) : s \in {q} })

\* Array.prototype.sort with comparator (a, b) => b.score - a.score over
\* entries [url, score]: a stable sort by descending score (entries of equal
\* score keep their relative order)
RECURSIVE InsertByScore(_, _)
InsertByScore(x, sorted) == Only({ IF s = <<>> THEN <<x>> ELSE IF Head(s).score >= x.score THEN <<Head(s)>> \o InsertByScore(x, Tail(s)) ELSE <<x>> \o s : s \in {sorted} })

RECURSIVE SortByScoreDesc(_)
SortByScoreDesc(q) == Only({ IF s = <<>> THEN <<>> ELSE InsertByScore(s[Len(s)], SortByScoreDesc(SubSeq(s, 1, Len(s) - 1))) : s \in {q} })

\* ------------------------------------------------------------------------
\* Enumerated inputs: site addresses and the hrefs found on pages
\* ------------------------------------------------------------------------
WebsiteUrls == {"https://smiledentist.com/", "https://example.com"}

\* hrefs of the homepage's navigation
HomeHrefPool == {"/contact", "/", "/about-us", "https://partner.org/book"}

RankBases == {"https://example.com", "https://smiledentist.com/", "http://example.com/team/", "not a url"}

HrefPool == {"/contact", "https://other.com/contact", "http://[bad", "mailto:info@example.com", "https://EXAMPLE.com/Team", "appointment"}

MaxLinksPool == {1, 2}

\* ------------------------------------------------------------------------
\* Page-importance ranking of the signal aggregator
\* ------------------------------------------------------------------------
B2N(b) == IF b THEN 1 ELSE 0

\* the keyword table applied to the lower-cased URL u
ScoreKeywords(u) ==
  LET I(kw) == Includes(u, kw)
  IN    6 * B2N(I("contact"))
      + 5 * B2N(I("locations") \/ I("location"))
      + 6 * B2N(I("appointment") \/ I("appointments"))
      + 6 * B2N(I("schedule") \/ I("scheduling"))
      + 6 * B2N(I("book") \/ I("booking"))
      + 7 * B2N(I("request-appointment") \/ I("appointment-request"))
      + 3 * B2N(I("call") \/ I("phone"))
      + 5 * B2N(I("new-patient") \/ I("new-patients"))
      + 4 * B2N(I("patient-forms") \/ I("forms"))
      + 4 * B2N(I("insurance") \/ I("insurances"))
      + 4 * B2N(I("financing") \/ I("payment") \/ I("pay"))
      + 3 * B2N(I("special-offer") \/ I("specials") \/ I("offers") \/ I("coupon"))
      + 4 * B2N(I("emergency"))
      + 3 * B2N(I("referral") \/ I("refer"))
      + 3 * B2N(I("about"))
      + 4 * B2N(I("our-team") \/ I("team"))
      + 4 * B2N(I("doctor") \/ I("doctors"))
      + 3 * B2N(I("dentist") \/ I("dentists"))
      + 2 * B2N(I("staff") \/ I("hygienist"))
      + 5 * B2N(I("meet-the-doctor") \/ I("meet-the-team"))
      + 2 * B2N(I("services") \/ I("service"))
      + 1 * B2N(I("cosmetic") \/ I("implants") \/ I("invisalign"))
      + 1 * B2N(I("family-dentistry") \/ I("general-dentistry"))
      - 2 * B2N(I("blog") \/ I("news") \/ I("articles"))
      - 3 * B2N(I("privacy") \/ I("terms") \/ I("sitemap") \/ I("accessibility") \/ I("careers") \/ I("jobs"))

\* const u = (url || "").toLowerCase()
scoreLinkRelevance(url) == Only({ ScoreKeywords(u) : u \in {toLowerCase(IF url = Null THEN "" ELSE url)} })

\* normalizeLinks without the same-host filter
normalizeLinks_nofilter(links, baseUrl) == Only({ uniq([i \in 1..Len(l) |-> resolveUrl(baseUrl, l[i])]) : l \in {links} })

\* links -> absolute URLs (unparseable dropped) -> same host as baseUrl -> uniq
normalizeLinks(links, baseUrl) ==
  Only({ uniq(SelectSeq(SelectSeq([i \in 1..Len(l) |-> resolveUrl(baseUrl, l[i])], LAMBDA x : x # Null /\ x # ""),
                        LAMBDA u : HostOf(u) # Null /\ HostOf(u) = baseHost))
       : l \in {links}, baseHost \in {HostOf(baseUrl)} })

RECURSIVE WithScore(_)
WithScore(urls) == Only({ IF s = <<>> THEN <<>> ELSE <<[url |-> Head(s), score |-> scoreLinkRelevance(Head(s))]>> \o WithScore(Tail(s)) : s \in {urls} })

\* rawLinks are the href attributes of the page's anchors, empty ones removed;
\* `new URL(baseUrl)` of normalizeLinks is outside any try: an unparseable
\* baseUrl makes the call throw, reported as Threw
Threw == <<"threw">>

\* pickImportantLinks that leaves the links in document order
pickImportantLinks_unsorted(hrefs, baseUrl, maxLinks) ==
  LET rawLinks == SelectSeq(hrefs, LAMBDA h : h # "")
  IN  IF HostOf(baseUrl) = Null THEN Threw
      ELSE Slice(Urls(SelectSeq(WithScore(normalizeLinks(rawLinks, baseUrl)), LAMBDA e : e.score > 0)), maxLinks)

pickImportantLinks(hrefs, baseUrl, maxLinks) ==
  LET rawLinks == SelectSeq(hrefs, LAMBDA h : h # "")
  IN  IF HostOf(baseUrl) = Null THEN Threw
      ELSE LET sorted == SortByScoreDesc(WithScore(normalizeLinks(rawLinks, baseUrl)))
               kept == SelectSeq(sorted, LAMBDA e : e.score > 0)
           IN  Slice(Urls(kept), maxLinks)

\* ------------------------------------------------------------------------
\* Page-importance ranking of the snapshot builder
\* ------------------------------------------------------------------------
EXTRA_PAGES == 3

URL_SCORING_RULES == << <<"kontakt", 100>>, <<"contact", 100>>, <<"termin", 95>>, <<"appointment", 95>>, <<"doctolib", 90>>, <<"impressum", 40>>, <<"datenschutz", 40>>, <<"privacy", 40>> >>

RECURSIVE SumRules(_, _)
SumRules(urlPath, k) == IF k = 0 THEN 0 ELSE SumRules(urlPath, k - 1) + (IF Includes(urlPath, URL_SCORING_RULES[k][1]) THEN URL_SCORING_RULES[k][2] ELSE 0)

scorePageImportance(urlPath) == Only({ SumRules(p, Len(URL_SCORING_RULES)) : p \in {urlPath} })

isSameDomain(baseUrl, targetUrl) == Only({ b # Null /\ t # Null /\ b = t : b \in {HostOf(baseUrl)}, t \in {HostOf(targetUrl)} })

RECURSIVE WithPageScore(_)
WithPageScore(urls) == Only({ IF s = <<>> THEN <<>> ELSE <<[url |-> Head(s), score |-> scorePageImportance(toLowerCase(Head(s)))]>> \o WithPageScore(Tail(s)) : s \in {urls} })

selectImportantPages(baseUrl, hrefs) ==
  LET resolved == SelectSeq([i \in 1..Len(hrefs) |-> resolveUrl(baseUrl, hrefs[i])], LAMBDA x : x # Null /\ x # "")
      absoluteUrls == SelectSeq(resolved, LAMBDA u : isSameDomain(baseUrl, u))
      scored == WithPageScore(absoluteUrls)
      scoredUrls == SortByScoreDesc(SelectSeq(scored, LAMBDA e : e.score > 0))
  IN  Slice(unique(Urls(scoredUrls)), EXTRA_PAGES)

\* ------------------------------------------------------------------------
\* Regular expressions of the detectors.  A pattern is a list of alternatives;
\* an alternative is a list of literals that must occur in that order on one
\* line (<<a, b>> is the expression a.*b, <<a>> the literal a).  The tested
\* strings are already lower-cased by the callers and the expressions carry
\* the i flag, so the literals are written in lower case.
\* ------------------------------------------------------------------------
LineRest(s, from) == LET r == Drop(s, from - 1) IN SubSeq(r, 1, FirstOf(r, "\n") - 1)

RECURSIVE MatchInOrder(_, _)
MatchInOrder(s, lits) == IF lits = <<>> THEN TRUE ELSE IF Len(lits) = 1 THEN Includes(s, lits[1]) ELSE \E i \in 1..(Len(s) - Len(lits[1]) + 1) : SubSeq(s, i, i + Len(lits[1]) - 1) = lits[1] /\ MatchInOrder(LineRest(s, i + Len(lits[1])), Tail(lits))

Test(rx, s) == \E k \in 1..Len(rx) : MatchInOrder(s, rx[k])

Quotes == {"'", "\""}

OptSpace == {"", " "}

\* /gtag\(['"]config['"],\s*['"]<prefix>/
GtagConfig(blob, prefix) == \E q1 \in Quotes, q2 \in Quotes, q3 \in Quotes, ws \in OptSpace : Includes(blob, "gtag(" \o q1 \o "config" \o q2 \o "," \o ws \o q3 \o prefix)

\* /<fn>\(['"]<arg>['"]/
CallWithQuoted(blob, fn, arg) == \E q1 \in Quotes, q2 \in Quotes : Includes(blob, fn \o "(" \o q1 \o arg \o q2)

\* ------------------------------------------------------------------------
\* detect.js
\* ------------------------------------------------------------------------
detectTracking(scriptBlob) ==
  [ ga4 |-> Includes(scriptBlob, "gtag/js?id=G-") \/ GtagConfig(scriptBlob, "g-"),
    gtm |-> Includes(scriptBlob, "googletagmanager.com/gtm.js?id=gtm-") \/ Includes(scriptBlob, "gtm-"),
    google_ads |-> Includes(scriptBlob, "googleadservices") \/ GtagConfig(scriptBlob, "aw-"),
    meta_pixel |-> MatchInOrder(scriptBlob, <<"connect.facebook.net/", "fbevents.js">>) \/ CallWithQuoted(scriptBlob, "fbq", "init"),
    linkedin_insight |-> Includes(scriptBlob, "snap.licdn.com/li.lms-analytics") \/ Includes(scriptBlob, "_linkedin_partner_id"),
    twitter_pixel |-> Includes(scriptBlob, "static.ads-twitter.com/uwt.js") \/ CallWithQuoted(scriptBlob, "twq", "init"),
    hotjar |-> Includes(scriptBlob, "static.hotjar.com") \/ CallWithQuoted(scriptBlob, "hj", "event"),
    microsoft_clarity |-> Includes(scriptBlob, "clarity.ms") \/ (\E q \in Quotes : Includes(scriptBlob, "clarity(" \o q)),
    mouseflow |-> Includes(scriptBlob, "mouseflow.com"),
    matomo |-> Includes(scriptBlob, "matomo") \/ Includes(scriptBlob, "piwik"),
    mixpanel |-> Includes(scriptBlob, "mixpanel") ]

ChatVendors == <<
  <<"intercom", <<<<"widget.intercom.io">>, <<"window.intercom">>, <<"intercomsettings">>>>>>,
  <<"zendesk", <<<<"static.zdassets.com">>, <<"zendesk.com/embeddable">>, <<"ze(">>, <<"webwidget">>>>>>,
  <<"drift", <<<<"js.driftt.com">>, <<"drift.load">>, <<"drift.on(">>>>>>,
  <<"hubspot", <<<<"js.hs-scripts.com">>, <<"hubspotconversations">>, <<"hsconversations">>>>>>,
  <<"livechat", <<<<"livechatinc.com">>, <<"livechat.js">>, <<"__lc.license">>>>>>,
  <<"tawk.to", <<<<"tawk.to">>, <<"tawk_loadstart">>>>>>,
  <<"crisp", <<<<"client.crisp.chat">>, <<"window.$crisp">>>>>>,
  <<"tidio", <<<<"tidio.co">>, <<"tidiochat">>, <<"tidiochat">>>>>>,
  <<"smartsupp", <<<<"smartsupp">>, <<"_smartsupp">>>>>>,
  <<"olark", <<<<"olark.com">>, <<"olark(">>>>>>,
  <<"userlike", <<<<"userlike">>, <<"userlike-cdn">>>>>>,
  <<"freshchat", <<<<"freshchat">>, <<"freshworks.com/live-chat">>>>>>,
  <<"podium", <<<<"podium.com">>, <<"podium.io">>, <<"podium-webchat">>, <<"podiumchat">>>>>>,
  <<"birdeye", <<<<"birdeye.com">>, <<"birdeye.io">>, <<"birdeye-widget">>, <<"birdeyechat">>>>>>,
  <<"nexhealth", <<<<"nexhealth.com">>, <<"nexhealth", "widget">>, <<"nexhealth-chat">>>>>>,
  <<"demandforce", <<<<"demandforce.com">>, <<"demandforce", "widget">>, <<"dfchat">>>>>>,
  <<"solutionreach", <<<<"solutionreach.com">>, <<"solutionreach", "widget">>, <<"srchat">>>>>>,
  <<"weave", <<<<"getweave.com">>, <<"weave", "widget">>, <<"weave-chat">>>>>>,
  <<"yapi", <<<<"yapiapp.com">>, <<"yapi.me">>, <<"yapi", "widget">>, <<"yapi-chat">>>>>>,
  <<"patientpop", <<<<"patientpop.com">>, <<"patientpop", "widget">>, <<"patientpop-chat">>>>>>,
  <<"carecru", <<<<"carecru.com">>, <<"carecru", "widget">>, <<"carecru-chat">>>>>>,
  <<"revive", <<<<"revivesoftware.com">>, <<"revive", "chat">>, <<"revive-chat">>>>>>,
  <<"callrail", <<<<"callrail.com">>, <<"callrail", "widget">>>>>>,
  <<"ringcentral", <<<<"ringcentral.com">>, <<"ringcentral", "widget">>>>>>,
  <<"twilio", <<<<"twilio.com">>, <<"twilio", "chat">>, <<"twilio", "conversations">>>>>>,
  <<"gorgias", <<<<"gorgias.com">>, <<"gorgias-chat">>, <<"gorgias", "widget">>>>>>,
  <<"zoho salesiq", <<<<"salesiq.zoho.com">>, <<"zsiq">>, <<"zohosalesiq">>>>>>,
  <<"helpscout beacon", <<<<"beacon-v2.helpscout.net">>, <<"hs.beacon">>>>>>,
  <<"kommunicate", <<<<"kommunicate.io">>, <<"kommunicate">>, <<"kmchat">>>>>>,
  <<"chatra", <<<<"chatra.io">>, <<"chatra.js">>>>>>,
  <<"jivochat", <<<<"jivochat.com">>, <<"jivo_api">>>>>>,
  <<"liveperson", <<<<"liveperson.net">>, <<"lptag">>>>>> >>

ChatEmbedWords == << <<"<script">>, <<"widget">>, <<"iframe">>, <<"chat">>, <<"messenger">>, <<"launcher">> >>

RECURSIVE FirstVendor(_, _, _, _)
FirstVendor(vendors, k, blob, html) == IF k > Len(vendors) THEN 0 ELSE IF Test(vendors[k][2], blob) \/ Test(vendors[k][2], html) THEN k ELSE FirstVendor(vendors, k + 1, blob, html)

detectChatbot(scriptBlob, htmlLower) ==
  LET k == FirstVendor(ChatVendors, 1, scriptBlob, htmlLower)
      strongHit(rx) == Test(rx, scriptBlob) \/ Test(rx, htmlLower) \/ Test(ChatEmbedWords, scriptBlob)
  IN  IF k > 0
      THEN [has_chatbot |-> TRUE, vendor |-> ChatVendors[k][1], confidence |-> IF strongHit(ChatVendors[k][2]) THEN 95 ELSE 75]
      ELSE [has_chatbot |-> FALSE, vendor |-> Null, confidence |-> 0]

BookingVendors == <<
  <<"nexhealth", <<<<"nexhealth.com">>, <<"nexhealth", "widget">>, <<"nexhealth", "book">>, <<"nexhealth", "schedule">>, <<"nexhealth">>>>>>,
  <<"localmed", <<<<"localmed.com">>, <<"localmed", "widget">>, <<"localmed", "schedule">>, <<"localmed", "appointment">>, <<"localmed">>>>>>,
  <<"solutionreach", <<<<"solutionreach.com">>, <<"solutionreach", "schedule">>, <<"solutionreach", "appointment">>, <<"solutionreach", "widget">>, <<"srchat">>, <<"sr", "appointment">>>>>>,
  <<"demandforce", <<<<"demandforce.com">>, <<"demandforce", "schedule">>, <<"demandforce", "appointment">>, <<"demandforce", "widget">>, <<"demandforce">>>>>>,
  <<"yapi", <<<<"yapiapp.com">>, <<"yapi.me">>, <<"yapi", "forms">>, <<"yapi", "schedule">>, <<"yapi", "appointment">>, <<"yapi", "widget">>, <<"yapi">>>>>>,
  <<"weave", <<<<"getweave.com">>, <<"weave", "schedule">>, <<"weave", "appointment">>, <<"weave", "widget">>, <<"weave">>>>>>,
  <<"carecru", <<<<"carecru.com">>, <<"carecru", "schedule">>, <<"carecru", "appointment">>, <<"carecru", "widget">>, <<"carecru">>>>>>,
  <<"patientpop", <<<<"patientpop.com">>, <<"patientpop", "schedule">>, <<"patientpop", "appointment">>, <<"patientpop", "widget">>, <<"patientpop">>>>>>,
  <<"modento", <<<<"modento.io">>, <<"modento", "schedule">>, <<"modento", "appointment">>, <<"modento", "widget">>, <<"modento">>>>>>,
  <<"opera dds", <<<<"operadds.com">>, <<"opera", "schedule">>, <<"opera", "appointment">>, <<"opera", "widget">>, <<"operadds">>>>>>,
  <<"curve dental", <<<<"curvedental.com">>, <<"curve", "schedule">>, <<"curve", "appointment">>, <<"curve", "widget">>, <<"curvedental">>>>>>,
  <<"dental intelligence", <<<<"dentalintel.com">>, <<"dentalintelligence">>, <<"localmed">>>>>>,
  <<"zocdoc", <<<<"zocdoc.com">>, <<"zocdoc">>>>>>,
  <<"calendly", <<<<"calendly.com">>, <<"calendly.initpopupwidget">>>>>>,
  <<"acuity", <<<<"acuityscheduling.com">>, <<"acuity">>>>>>,
  <<"setmore", <<<<"setmore.com">>, <<"setmore">>>>>>,
  <<"simplybook", <<<<"simplybook">>>>>> >>

BookingEmbedWords == << <<"<iframe">>, <<"<script">>, <<"widget">>, <<"scheduler">>, <<"schedule">>, <<"appointment">> >>

bookingKeywords == <<"request appointment", "schedule appointment", "schedule online", "book appointment", "book online", "book now", "make an appointment", "appointment request", "online scheduling", "schedule a visit", "reserve appointment", "new patient", "new patient forms", "patient forms", "forms", "check-in", "paperwork", "insurance verification", "emergency appointment", "same-day appointment", "same day appointment", "walk-in", "walk ins", "urgent dental", "after hours", "free consultation", "consultation request", "virtual consultation", "telehealth", "teledentistry">>

ApptWords == <<"appointment", "schedule", "request", "book">>

IncludesAny(s, words) == \E k \in 1..Len(words) : Includes(s, words[k])

\* dom: the parsed page ($); bodyText: $("body").text() lower-cased
detectBooking(scriptBlob, htmlLower, bodyText, dom) ==
  LET k == FirstVendor(BookingVendors, 1, scriptBlob, htmlLower)
      isEmbedLike(rx) == Test(rx, scriptBlob) \/ Test(rx, htmlLower) \/ Test(BookingEmbedWords, scriptBlob)
      text == toLowerCase(bodyText)
      hasBookingText == IncludesAny(text, bookingKeywords)
      formsCount == dom.forms
      apptLinkCount == Len(SelectSeq(dom.anchors, LAMBDA a : IncludesAny(toLowerCase(a.text), ApptWords) \/ IncludesAny(toLowerCase(a.href), ApptWords)))
                       + Len(SelectSeq(dom.buttons, LAMBDA b : IncludesAny(toLowerCase(b), ApptWords)))
      hasIframe == dom.iframes > 0 \/ Includes(htmlLower, "<iframe")
      phones == Len(SelectSeq(dom.anchors, LAMBDA a : StartsWith(a.href, "tel:")))
      mails == Len(SelectSeq(dom.anchors, LAMBDA a : StartsWith(a.href, "mailto:")))
  IN  IF k > 0
      THEN [type |-> BookingVendors[k][1], evidence |-> "embed/script", confidence |-> IF isEmbedLike(BookingVendors[k][2]) THEN 95 ELSE 85]
      ELSE IF hasBookingText /\ (formsCount > 0 \/ apptLinkCount > 0 \/ hasIframe)
      THEN [type |-> IF formsCount > 0 THEN "form" ELSE "cta",
            evidence |-> IF formsCount > 0 THEN "booking keywords + form" ELSE IF hasIframe THEN "booking keywords + iframe" ELSE "booking keywords + appointment CTA",
            confidence |-> IF formsCount > 0 THEN 78 ELSE 72]
      ELSE IF apptLinkCount > 0 \/ hasIframe
      THEN [type |-> IF hasIframe THEN "embed" ELSE "cta", evidence |-> IF hasIframe THEN "iframe present" ELSE "appointment CTA present", confidence |-> 55]
      ELSE IF phones > 0 THEN [type |-> "phone", evidence |-> "tel: link present", confidence |-> 60]
      ELSE IF mails > 0 THEN [type |-> "email", evidence |-> "mailto: link present", confidence |-> 45]
      ELSE [type |-> Null, evidence |-> Null, confidence |-> 0]

\* ------------------------------------------------------------------------
\* extract-contacts: normalisation
\* ------------------------------------------------------------------------
Digits == "0123456789"

IsDigit(c) == Includes(Digits, c)

WhiteSpace == " \t\n"

IsSpace(c) == Includes(WhiteSpace, c)

RECURSIVE Keep(_, _)
Keep(s, allowed) == IF s = "" THEN "" ELSE IF Len(s) = 1 THEN (IF Includes(allowed, s) THEN s ELSE "") ELSE Keep(SubSeq(s, 1, Len(s) \div 2), allowed) \o Keep(Drop(s, Len(s) \div 2), allowed)

RECURSIVE Remove(_, _)
Remove(s, banned) == IF s = "" THEN "" ELSE IF Len(s) = 1 THEN (IF Includes(banned, s) THEN "" ELSE s) ELSE Remove(SubSeq(s, 1, Len(s) \div 2), banned) \o Remove(Drop(s, Len(s) \div 2), banned)

RECURSIVE TrimLeft(_)
TrimLeft(s) == IF s # "" /\ IsSpace(Char(s, 1)) THEN TrimLeft(Drop(s, 1)) ELSE s

RECURSIVE TrimRight(_)
TrimRight(s) == IF s # "" /\ IsSpace(Char(s, Len(s))) THEN TrimRight(SubSeq(s, 1, Len(s) - 1)) ELSE s

Trim(s) == TrimRight(TrimLeft(s))

\* p.replace(/\D/g, "")
DigitsOf(p) == Keep(p, Digits)

stripToDigits(str) ==
  LET s == Keep(Trim(str), Digits \o "+")
  IN  IF StartsWith(s, "+") THEN "+" \o Remove(Drop(s, 1), "+") ELSE Remove(s, "+")

\* normalizePhone that returns an 11-digit number without its leading 1
normalizePhone_strip1(raw) ==
  IF raw = Null \/ raw = "" THEN Null
  ELSE LET s == stripToDigits(raw)
       IN  IF s = "" THEN Null
           ELSE IF StartsWith(s, "+") THEN (IF Len(Drop(s, 1)) >= 7 THEN "+" \o Drop(s, 1) ELSE Null)
           ELSE IF StartsWith(s, "00") /\ Len(s) >= 9 THEN "+" \o Drop(s, 2)
           ELSE IF Len(s) = 11 /\ StartsWith(s, "1") THEN Drop(s, 1)
           ELSE IF Len(s) = 10 THEN "+1" \o s
           ELSE IF Len(s) >= 9 /\ Len(s) <= 15 THEN s
           ELSE IF Len(s) = 7 THEN s
           ELSE Null

normalizePhone(raw) ==
  IF raw = Null \/ raw = "" THEN Null
  ELSE LET s == stripToDigits(raw)
       IN  IF s = "" THEN Null
           ELSE IF StartsWith(s, "+") THEN (IF Len(Drop(s, 1)) >= 7 THEN "+" \o Drop(s, 1) ELSE Null)
           ELSE IF StartsWith(s, "00") /\ Len(s) >= 9 THEN "+" \o Drop(s, 2)
           ELSE IF Len(s) = 11 /\ StartsWith(s, "1") THEN "+" \o s
           ELSE IF Len(s) = 10 THEN "+1" \o s
           ELSE IF Len(s) >= 9 /\ Len(s) <= 15 THEN s
           ELSE IF Len(s) = 7 THEN s
           ELSE Null

\* length of the run of white space that ends just before index i / starts at i
RECURSIVE SpacesBefore(_, _)
SpacesBefore(s, i) == IF i >= 1 /\ IsSpace(Char(s, i)) THEN 1 + SpacesBefore(s, i - 1) ELSE 0

RECURSIVE SpacesFrom(_, _)
SpacesFrom(s, i) == IF i <= Len(s) /\ IsSpace(Char(s, i)) THEN 1 + SpacesFrom(s, i + 1) ELSE 0

IndexOf(s, w) == IF Includes(s, w) THEN CHOOSE i \in 1..(Len(s) - Len(w) + 1) : SubSeq(s, i, i + Len(w) - 1) = w /\ \A j \in 1..(i - 1) : SubSeq(s, j, j + Len(w) - 1) # w ELSE 0

\* the leftmost match of /\s*[\[(]?<word>[\])]?\s*/ in s, as <<first, last>>
\* indexes, <<0, 0>> when the word does not occur
WordMatch(s, word) ==
  LET j == IndexOf(s, word)
      open == IF j > 1 /\ Includes("[(", Char(s, j - 1)) THEN 1 ELSE 0
      first == j - open - SpacesBefore(s, j - open - 1)
      e == j + Len(word) - 1
      close == IF e < Len(s) /\ Includes("])", Char(s, e + 1)) THEN 1 ELSE 0
      last == e + close + SpacesFrom(s, e + close + 1)
  IN  IF j = 0 THEN <<0, 0>> ELSE <<first, last>>

\* s.replace(/\s*[\[(]?at[\])]?\s*/i, "@"): the first match only
ReplaceFirstAt(s) == LET m == WordMatch(s, "at") IN IF m[1] = 0 THEN s ELSE SubSeq(s, 1, m[1] - 1) \o "@" \o Drop(s, m[2])

\* s.replace(/\s*[\[(]?dot[\])]?\s*/gi, "."): every match
RECURSIVE ReplaceAllDot(_)
ReplaceAllDot(s) == LET m == WordMatch(s, "dot") IN IF m[1] = 0 THEN s ELSE SubSeq(s, 1, m[1] - 1) \o "." \o ReplaceAllDot(Drop(s, m[2]))

normalizeEmail(raw) == IF raw = Null \/ raw = "" THEN Null ELSE Remove(ReplaceAllDot(ReplaceFirstAt(Trim(toLowerCase(raw)))), WhiteSpace)

NumDistinctChars(d) == Cardinality({Char(d, i) : i \in 1..Len(d)})

isValidPhone(p) ==
  IF p = Null \/ p = "" THEN FALSE
  ELSE LET d == DigitsOf(p)
       IN  /\ Len(d) >= 7
           /\ NumDistinctChars(d) >= 3
           /\ ~(Len(d) = 7 /\ StartsWith(d, "5550") /\ Char(d, 5) \in {"0", "1"})

EmailLocalChars == "abcdefghijklmnopqrstuvwxyz0123456789._%+-"

EmailDomainChars == "abcdefghijklmnopqrstuvwxyz0123456789.-"

AllIn(s, allowed) == \A i \in 1..Len(s) : Includes(allowed, Char(s, i))

\* /^[a-z0-9._%+\-]+@[a-z0-9.\-]+\.[a-z]{2,}$/
isValidEmail(e) ==
  IF e = Null \/ e = "" THEN FALSE
  ELSE \E a \in 2..(Len(e) - 4) : \E dt \in (a + 2)..(Len(e) - 2) :
          /\ Char(e, a) = "@"
          /\ AllIn(SubSeq(e, 1, a - 1), EmailLocalChars)
          /\ AllIn(SubSeq(e, a + 1, dt - 1), EmailDomainChars)
          /\ Char(e, dt) = "."
          /\ AllIn(Drop(e, dt), LowerChars)

\* canonKey that keeps the leading country digit
canonKey_digits(phone) == DigitsOf(phone)

\* ------------------------------------------------------------------------
\* extract-contacts: deduplication
\* ------------------------------------------------------------------------
canonKey(phone) == LET d == DigitsOf(phone) IN IF Len(d) = 11 /\ StartsWith(d, "1") THEN Drop(d, 1) ELSE d

\* Step 1, the Map byKey as its keys in insertion order and its values: the
\* first phone of a key stays unless a later one has a plus and it has none
\* (or it is the empty string, which `!ex` takes for absent)
RECURSIVE GroupByKey(_, _, _)
GroupByKey(phones, keys, val) ==
  IF phones = <<>> THEN [keys |-> keys, val |-> val]
  ELSE LET p == Head(phones)
           key == canonKey(p)
       IN  IF key \notin DOMAIN val THEN GroupByKey(Tail(phones), Append(keys, key), [k \in DOMAIN val \cup {key} |-> IF k = key THEN p ELSE val[k]])
           ELSE IF val[key] = "" \/ (StartsWith(p, "+") /\ ~StartsWith(val[key], "+")) THEN GroupByKey(Tail(phones), keys, [val EXCEPT ![key] = p])
           ELSE GroupByKey(Tail(phones), keys, val)

\* comparator of step 3: negative when a sorts before b
PhoneCompare(a, b) ==
  IF StartsWith(a, "+") /\ ~StartsWith(b, "+") THEN -1
  ELSE IF ~StartsWith(a, "+") /\ StartsWith(b, "+") THEN 1
  ELSE Len(DigitsOf(b)) - Len(DigitsOf(a))

RECURSIVE InsertPhone(_, _)
InsertPhone(x, sorted) == IF sorted = <<>> THEN <<x>> ELSE IF PhoneCompare(Head(sorted), x) <= 0 THEN <<Head(sorted)>> \o InsertPhone(x, Tail(sorted)) ELSE <<x>> \o sorted

RECURSIVE SortPhones(_)
SortPhones(q) == IF q = <<>> THEN <<>> ELSE InsertPhone(q[Len(q)], SortPhones(SubSeq(q, 1, Len(q) - 1)))

\* deduplicatePhones without step 2, the removal of short suffixes
deduplicatePhones_keepshort(phones) ==
  LET g == GroupByKey(phones, <<>>, [k \in {} |-> ""])
  IN  SortPhones([i \in 1..Len(g.keys) |-> g.val[g.keys[i]]])

deduplicatePhones(phones) ==
  LET g == GroupByKey(phones, <<>>, [k \in {} |-> ""])
      keys == g.keys
      filtered == SelectSeq(keys, LAMBDA key : Len(key) >= 10 \/ ~(\E i \in 1..Len(keys) : Len(keys[i]) > Len(key) /\ EndsWith(keys[i], key)))
  IN  SortPhones([i \in 1..Len(filtered) |-> g.val[filtered[i]]])

RECURSIVE DedupLower(_, _)
DedupLower(q, seen) == IF q = <<>> THEN <<>> ELSE IF toLowerCase(Head(q)) \in seen THEN DedupLower(Tail(q), seen) ELSE <<Head(q)>> \o DedupLower(Tail(q), seen \cup {toLowerCase(Head(q))})

deduplicateEmails(emails) == DedupLower(emails, {})

\* ------------------------------------------------------------------------
\* extract-contacts: the five strategies.  A text (an element's text, an
\* aria-label) is kept with the candidates the phone and e-mail expressions
\* capture from it: phoneMatches are the captures of PHONE_CONTEXT_PATTERNS
\* followed by the matches of PHONE_PATTERNS, emailMatches the matches of
\* EMAIL_PATTERNS.
\* ------------------------------------------------------------------------
RECURSIVE Flatten(_)
Flatten(qq) == IF qq = <<>> THEN <<>> ELSE Head(qq) \o Flatten(Tail(qq))

NormPhones(raws) == SelectSeq([i \in 1..Len(raws) |-> normalizePhone(raws[i])], LAMBDA n : n # Null /\ isValidPhone(n))

NormEmails(raws) == SelectSeq([i \in 1..Len(raws) |-> normalizeEmail(raws[i])], LAMBDA n : n # Null /\ isValidEmail(n))

extractPhonesFromText(t) == IF t.text = "" THEN <<>> ELSE NormPhones(t.phoneMatches)

extractEmailsFromText(t) == IF t.text = "" THEN <<>> ELSE NormEmails(t.emailMatches)

\* S1: tel: / mailto: hrefs
fromHrefs(dom) ==
  LET tels == SelectSeq(dom.anchors, LAMBDA a : StartsWith(a.href, "tel:"))
      mails == SelectSeq(dom.anchors, LAMBDA a : StartsWith(a.href, "mailto:"))
  IN  [phones |-> NormPhones([i \in 1..Len(tels) |-> Drop(tels[i].href, 4)]),
       emails |-> NormEmails([i \in 1..Len(mails) |-> LET v == Drop(mails[i].href, 7) IN SubSeq(v, 1, FirstOf(v, "?") - 1)])]

\* S2: JSON-LD.  A block is [valid, isArray, nodes]; a node is
\* [t, telephone, phone, email, cp] with t one of "null", "num", "obj" and cp
\* the contactPoint entries [t, telephone, email] (empty when contactPoint is
\* absent or null).  Reading a property of null throws a TypeError, outside
\* the try that guards JSON.parse.
JsonLdThrows(dom) == \E b \in 1..Len(dom.jsonld) : dom.jsonld[b].valid /\ \E n \in 1..Len(dom.jsonld[b].nodes) : LET node == dom.jsonld[b].nodes[n] IN node.t = "null" \/ (node.t = "obj" /\ \E c \in 1..Len(node.cp) : node.cp[c].t = "null")

NodeTel(node) == IF node.t # "obj" THEN Null ELSE IF node.telephone # Null THEN node.telephone ELSE node.phone

NodePhones(node) == (IF NodeTel(node) # Null THEN <<NodeTel(node)>> ELSE <<>>) \o (IF node.t = "obj" THEN SelectSeq([c \in 1..Len(node.cp) |-> node.cp[c].telephone], LAMBDA v : v # Null) ELSE <<>>)

NodeEmails(node) == (IF node.t = "obj" /\ node.email # Null THEN <<node.email>> ELSE <<>>) \o (IF node.t = "obj" THEN SelectSeq([c \in 1..Len(node.cp) |-> node.cp[c].email], LAMBDA v : v # Null) ELSE <<>>)

fromJsonLd(dom) ==
  LET blocks == SelectSeq(dom.jsonld, LAMBDA b : b.valid)
      nodes == Flatten([i \in 1..Len(blocks) |-> blocks[i].nodes])
  IN  [phones |-> NormPhones(Flatten([i \in 1..Len(nodes) |-> NodePhones(nodes[i])])),
       emails |-> NormEmails(Flatten([i \in 1..Len(nodes) |-> NodeEmails(nodes[i])]))]

PhoneAttrNames == {"data-phone", "data-tel", "data-telephone", "data-number", "data-mobile"}

\* S3: aria-label, data-* attributes, title of tel: anchors
fromAttributes(dom) ==
  LET aria == SelectSeq(dom.attrs, LAMBDA a : a.name = "aria-label")
      dataPhone == SelectSeq(dom.attrs, LAMBDA a : a.name \in PhoneAttrNames)
      dataEmail == SelectSeq(dom.attrs, LAMBDA a : a.name = "data-email")
      titled == SelectSeq(dom.anchors, LAMBDA a : StartsWith(a.href, "tel:") /\ a.title # "")
  IN  [phones |-> Flatten([i \in 1..Len(aria) |-> extractPhonesFromText(aria[i].value)])
                  \o NormPhones([i \in 1..Len(dataPhone) |-> dataPhone[i].value.text])
                  \o NormPhones([i \in 1..Len(titled) |-> titled[i].title]),
       emails |-> Flatten([i \in 1..Len(aria) |-> extractEmailsFromText(aria[i].value)])
                  \o NormEmails([i \in 1..Len(dataEmail) |-> dataEmail[i].value.text])]

\* S4: text of the contact sections (footer, header, address, .contact, ...)
fromContactSections(dom) ==
  LET secs == SelectSeq(dom.regions, LAMBDA r : r.contact)
  IN  [phones |-> Flatten([i \in 1..Len(secs) |-> extractPhonesFromText(secs[i])]),
       emails |-> Flatten([i \in 1..Len(secs) |-> extractEmailsFromText(secs[i])])]

\* S5: the whole body text
fromBodyText(dom) ==
  [phones |-> Flatten([i \in 1..Len(dom.regions) |-> extractPhonesFromText(dom.regions[i])]),
   emails |-> Flatten([i \in 1..Len(dom.regions) |-> extractEmailsFromText(dom.regions[i])])]

extractContacts(dom) ==
  IF JsonLdThrows(dom) THEN [threw |-> TRUE, phones |-> <<>>, emails |-> <<>>]
  ELSE LET s1 == fromHrefs(dom)
           s2 == fromJsonLd(dom)
           s3 == fromAttributes(dom)
           s4 == fromContactSections(dom)
           s5 == fromBodyText(dom)
       IN  [threw |-> FALSE,
            phones |-> deduplicatePhones(s1.phones \o s2.phones \o s3.phones \o s4.phones \o s5.phones),
            emails |-> deduplicateEmails(s1.emails \o s2.emails \o s3.emails \o s4.emails \o s5.emails)]

\* ------------------------------------------------------------------------
\* detect.js: detectFromHtml over the parsed page
\* ------------------------------------------------------------------------
RECURSIVE Concat(_)
Concat(q) == IF q = <<>> THEN "" ELSE Head(q) \o Concat(Tail(q))

RECURSIVE Repeat(_, _)
Repeat(s, n) == IF n = 0 THEN "" ELSE s \o Repeat(s, n - 1)

\* the raw markup of which dom is the parse
Markup(dom) ==
  "<title>" \o dom.title \o "</title>\n"
  \o Concat([i \in 1..Len(dom.scripts) |-> "<script src=\"" \o dom.scripts[i].src \o "\">" \o dom.scripts[i].body \o "</script>\n"])
  \o Concat([i \in 1..Len(dom.h1) |-> "<h1>" \o dom.h1[i] \o "</h1>\n"])
  \o Concat([i \in 1..Len(dom.anchors) |-> "<a href=\"" \o dom.anchors[i].href \o "\">" \o dom.anchors[i].text \o "</a>\n"])
  \o Concat([i \in 1..Len(dom.buttons) |-> "<button>" \o dom.buttons[i] \o "</button>\n"])
  \o Repeat("<form></form>\n", dom.forms)
  \o Repeat("<iframe></iframe>\n", dom.iframes)
  \o Concat([i \in 1..Len(dom.regions) |-> "<div>" \o dom.regions[i].text \o "</div>\n"])

\* $("body").text()
BodyText(dom) ==
  Concat([i \in 1..Len(dom.h1) |-> dom.h1[i] \o "\n"])
  \o Concat([i \in 1..Len(dom.anchors) |-> dom.anchors[i].text \o "\n"])
  \o Concat([i \in 1..Len(dom.buttons) |-> dom.buttons[i] \o "\n"])
  \o Concat([i \in 1..Len(dom.regions) |-> dom.regions[i].text \o "\n"])

\* $("script").map(el => `${src}\n${html}`).get().join("\n").toLowerCase()
ScriptBlob(dom) == toLowerCase(Concat([i \in 1..Len(dom.scripts) |-> (IF i > 1 THEN "\n" ELSE "") \o dom.scripts[i].src \o "\n" \o dom.scripts[i].body]))

OrNull(str) == IF str = "" THEN Null ELSE str

\* the fields of the SEO record that the inputs vary; the others are read from
\* the same markup in the same way
detectSEO(dom) ==
  [ title |-> OrNull(Trim(dom.title)),
    meta_description |-> IF dom.metaDescription = Null THEN Null ELSE OrNull(Trim(dom.metaDescription)),
    structured_data |-> Len(SelectSeq(dom.jsonld, LAMBDA b : b.valid /\ ~(~b.isArray /\ Len(b.nodes) = 1 /\ b.nodes[1].t = "null"))),
    content_analysis |-> [h1_count |-> Len(dom.h1), h1_text |-> IF dom.h1 = <<>> THEN Null ELSE OrNull(Trim(dom.h1[1]))] ]

\* the contact and social fields of the result are not read by the merge of
\* collectSignals, which takes contacts from extractContacts
detectFromHtml(dom) ==
  LET scriptBlob == ScriptBlob(dom)
      htmlLower == toLowerCase(Markup(dom))
      bodyText == toLowerCase(BodyText(dom))
  IN  [ tracking |-> detectTracking(scriptBlob),
        chatbot |-> detectChatbot(scriptBlob, htmlLower),
        booking |-> detectBooking(scriptBlob, htmlLower, bodyText, dom),
        seo |-> detectSEO(dom) ]

\* ------------------------------------------------------------------------
\* Signal merging (collect.js)
\* ------------------------------------------------------------------------
EmptySeo == [k \in {} |-> Null]

createEmptySignalStructure ==
  [ chatbot |-> [has_chatbot |-> FALSE, vendor |-> Null, confidence |-> 0, evidence_url |-> Null],
    tracking |-> [ga4 |-> FALSE, gtm |-> FALSE, meta_pixel |-> FALSE, google_ads |-> FALSE],
    booking |-> [type |-> Null, evidence |-> Null, confidence |-> 0, evidence_url |-> Null],
    contact |-> [phones |-> <<>>, emails |-> <<>>],
    seo |-> EmptySeo,
    crawled_pages |-> <<>> ]

\* mergeTrackingSignals with = in place of ||=
mergeTrackingSignals_assign(merged, pageSignal) == [merged EXCEPT !.tracking = [key \in DOMAIN merged.tracking |-> pageSignal.tracking[key]]]

\* merged.tracking[key] ||= pageSignal.tracking[key], for the keys of merged
mergeTrackingSignals(merged, pageSignal) == [merged EXCEPT !.tracking = [key \in DOMAIN merged.tracking |-> merged.tracking[key] \/ pageSignal.tracking[key]]]

\* mergeChatbotSignals without the test of merged.chatbot.has_chatbot
mergeChatbotSignals_last(merged, pageSignal, pageUrl) ==
  IF pageSignal.chatbot.has_chatbot
  THEN [merged EXCEPT !.chatbot = [has_chatbot |-> pageSignal.chatbot.has_chatbot, vendor |-> pageSignal.chatbot.vendor, confidence |-> pageSignal.chatbot.confidence, evidence_url |-> pageUrl]]
  ELSE merged

mergeChatbotSignals(merged, pageSignal, pageUrl) ==
  IF ~merged.chatbot.has_chatbot /\ pageSignal.chatbot.has_chatbot
  THEN [merged EXCEPT !.chatbot = [has_chatbot |-> pageSignal.chatbot.has_chatbot, vendor |-> pageSignal.chatbot.vendor, confidence |-> pageSignal.chatbot.confidence, evidence_url |-> pageUrl]]
  ELSE merged

\* mergeBookingSignals with >= in place of >
mergeBookingSignals_geq(merged, pageSignal, pageUrl) ==
  IF pageSignal.booking.confidence >= merged.booking.confidence
  THEN [merged EXCEPT !.booking = [type |-> pageSignal.booking.type, evidence |-> pageSignal.booking.evidence, confidence |-> pageSignal.booking.confidence, evidence_url |-> pageUrl]]
  ELSE merged

mergeBookingSignals(merged, pageSignal, pageUrl) ==
  LET newConfidence == pageSignal.booking.confidence
      currentConfidence == merged.booking.confidence
  IN  IF newConfidence > currentConfidence
      THEN [merged EXCEPT !.booking = [type |-> pageSignal.booking.type, evidence |-> pageSignal.booking.evidence, confidence |-> pageSignal.booking.confidence, evidence_url |-> pageUrl]]
      ELSE merged

mergeSeoSignals(merged, pageSignal, pageUrl, homepageUrl) == IF pageUrl = homepageUrl THEN [merged EXCEPT !.seo = pageSignal.seo] ELSE merged

\* mergeContactSignals that takes the page's lists in place of the union
mergeContactSignals_replace(merged, pageSig) ==
  [merged EXCEPT !.contact = [phones |-> deduplicatePhones(pageSig.contact.phones), emails |-> deduplicateEmails(pageSig.contact.emails)]]

mergeContactSignals(merged, pageSig) ==
  [merged EXCEPT !.contact = [phones |-> deduplicatePhones(merged.contact.phones \o pageSig.contact.phones),
                              emails |-> deduplicateEmails(merged.contact.emails \o pageSig.contact.emails)]]

\* ------------------------------------------------------------------------
\* Enumerated inputs: pages a server may answer with
\* ------------------------------------------------------------------------
NoText == [text |-> "", phoneMatches |-> <<>>, emailMatches |-> <<>>]

Txt(t, phones, emails) == [text |-> t, phoneMatches |-> phones, emailMatches |-> emails]

Region(isContact, t, phones, emails) == [contact |-> isContact, text |-> t, phoneMatches |-> phones, emailMatches |-> emails]

Script(src, body) == [src |-> src, body |-> body]

Anchor(href, text) == [href |-> href, text |-> text, title |-> ""]

Attr(name, value) == [name |-> name, value |-> Txt(value, <<>>, <<>>)]

JsonObj(tel, mail, cps) == [t |-> "obj", telephone |-> tel, phone |-> Null, email |-> mail, cp |-> cps]

JsonNull == [t |-> "null", telephone |-> Null, phone |-> Null, email |-> Null, cp |-> <<>>]

JsonBlock(isArray, nodes) == [valid |-> TRUE, isArray |-> isArray, nodes |-> nodes]

BaseDom == [title |-> "Smile Dental", metaDescription |-> Null, h1 |-> <<>>, scripts |-> <<>>, anchors |-> <<>>, buttons |-> <<>>, forms |-> 0, iframes |-> 0, jsonld |-> <<>>, attrs |-> <<>>, regions |-> <<>>]

TrackingDoms ==
  { [BaseDom EXCEPT !.title = "Analytics", !.scripts = <<Script("", "gtag('config', 'G-AB12');")>>],
    [BaseDom EXCEPT !.title = "Tag src", !.scripts = <<Script("https://www.googletagmanager.com/gtag/js?id=G-AB12", "")>>],
    [BaseDom EXCEPT !.title = "Tags", !.scripts = <<Script("https://www.googletagmanager.com/gtm.js?id=GTM-XY9", ""), Script("https://connect.facebook.net/en_US/fbevents.js", "fbq('init', '1');")>>],
    [BaseDom EXCEPT !.title = "Heatmap", !.scripts = <<Script("https://static.hotjar.com/c/hotjar-1.js", ""), Script("https://www.googleadservices.com/pagead/conversion.js", "")>>] }

ChatbotDoms ==
  { [BaseDom EXCEPT !.title = "Chat A", !.scripts = <<Script("https://widget.intercom.io/widget/abc", "")>>],
    [BaseDom EXCEPT !.title = "Chat B", !.scripts = <<Script("https://client.crisp.chat/l.js", "")>>] }

BookingDoms ==
  { [BaseDom EXCEPT !.title = "Book A", !.scripts = <<Script("https://assets.calendly.com/assets/external/widget.js", "")>>],
    [BaseDom EXCEPT !.title = "Book B", !.scripts = <<Script("https://www.zocdoc.com/widget.js", "")>>],
    [BaseDom EXCEPT !.title = "Book C", !.forms = 1, !.regions = <<Region(FALSE, "Request appointment today", <<>>, <<>>)>>],
    [BaseDom EXCEPT !.title = "Book D", !.buttons = <<"Reserve">>, !.iframes = 1] }

ContactDoms ==
  { [BaseDom EXCEPT !.title = "Contact A", !.h1 = <<"Contact us">>, !.anchors = <<Anchor("tel:+1-404-762-9615", "Call"), Anchor("mailto:info@example.com?subject=Hi", "Email")>>],
    [BaseDom EXCEPT !.title = "Contact B", !.regions = <<Region(TRUE, "Front desk 762-9615", <<"762-9615">>, <<>>)>>],
    [BaseDom EXCEPT !.title = "Contact C", !.regions = <<Region(TRUE, "Office: (404) 762-9615 office@smile.co", <<"(404) 762-9615", "(404) 762-9615", "762-9615">>, <<"office@smile.co">>)>>],
    [BaseDom EXCEPT !.title = "Contact D", !.attrs = <<Attr("data-phone", "404762961512"), Attr("data-email", "Info@Example.com")>>],
    [BaseDom EXCEPT !.title = "Contact E", !.jsonld = <<JsonBlock(FALSE, <<JsonObj("+404762961512", "desk@smile.co", <<>>)>>)>>],
    [BaseDom EXCEPT !.title = "Contact F", !.jsonld = <<JsonBlock(TRUE, <<JsonNull>>)>>],
    [BaseDom EXCEPT !.title = "Contact G", !.anchors = <<Anchor("tel:+404-762-9615", "Call us")>>] }

SignalDoms == {BaseDom} \cup TrackingDoms \cup ChatbotDoms \cup BookingDoms \cup ContactDoms

DefaultNav == <<Anchor("/contact", "Contact"), Anchor("/", "Home")>>

NavDoms == { [BaseDom EXCEPT !.title = "Nav", !.anchors = [i \in 1..Len(hs) |-> Anchor(hs[i], "Link")]] : hs \in SeqsUpTo(HomeHrefPool, MaxHomeHrefs) }

\* a homepage: any navigation with the plain content, any content with the
\* default navigation, or a contact page without any navigation
HomeDoms == NavDoms \cup { [d EXCEPT !.anchors = DefaultNav \o d.anchors] : d \in SignalDoms } \cup ContactDoms

\* what makes fetchHtml throw: fetch rejects, or the status is not 2xx
FetchErrors == {"TypeError: fetch failed", "Fetch failed 404 Not Found"}

\* ------------------------------------------------------------------------
\* One run of collectSignals(websiteUrl)
\* ------------------------------------------------------------------------
\* detectFromHtml and extractContacts of every page of the pools, tabulated
SignalTable == { <<d, detectFromHtml(d), extractContacts(d)>> : d \in SignalDoms \cup HomeDoms }

SignalsOf(d) == (CHOOSE p \in SignalTable : p[1] = d)[2]

ContactsOf(d) == (CHOOSE p \in SignalTable : p[1] = d)[3]

VARIABLES
  websiteUrl,   \* the argument
  pc,           \* "start", "fetch_home", "fetch_more", "merge", "done", "rejected", "idle"
  inflight,     \* URLs whose fetchHtml promise is pending
  links,        \* importantLinks
  linkIdx,      \* index of the next link of fetchAdditionalPages' loop
  pages,        \* the pages array: [url, html]
  merged,       \* the record under construction in processAndMergeSignals
  mergeIdx,     \* index of the next page of the merge loop
  result,       \* the resolved value, Null before
  error,        \* the rejection reason, Null before
  fetchLog,     \* history: fetch events [ev, url, err] in order
  mergeLog,     \* history: [url, signals, contacts] of each merged page in order
  homeSeo       \* history: detectSEO of the markup fetched first

collectVars == <<websiteUrl, pc, inflight, links, linkIdx, pages, merged, mergeIdx, result, error, fetchLog, mergeLog, homeSeo>>

InitCollect ==
  /\ websiteUrl \in WebsiteUrls
  /\ pc = "start"
  /\ inflight = {}
  /\ links = <<>>
  /\ linkIdx = 1
  /\ pages = <<>>
  /\ merged = Null
  /\ mergeIdx = 1
  /\ result = Null
  /\ error = Null
  /\ fetchLog = <<>>
  /\ mergeLog = <<>>
  /\ homeSeo = Null

\* collectSignals: const homepageHtml = await fetchHtml(websiteUrl) is issued
StartHomepageFetch ==
  /\ pc = "start"
  /\ pc' = "fetch_home"
  /\ inflight' = {websiteUrl}
  /\ fetchLog' = Append(fetchLog, [ev |-> "start", url |-> websiteUrl, err |-> Null])
  /\ UNCHANGED <<websiteUrl, links, linkIdx, pages, merged, mergeIdx, result, error, mergeLog, homeSeo>>

\* the homepage fetch resolves: links are ranked, the pages array is started
\* and fetchAdditionalPages is entered
HomepageFetchOk ==
  /\ pc = "fetch_home"
  /\ \E html \in HomeDoms :
       /\ links' = pickImportantLinks([i \in 1..Len(html.anchors) |-> html.anchors[i].href], websiteUrl, 2)
       /\ pages' = <<[url |-> websiteUrl, html |-> html]>>
       /\ homeSeo' = detectSEO(html)
  /\ pc' = "fetch_more"
  /\ inflight' = {}
  /\ linkIdx' = 1
  /\ fetchLog' = Append(fetchLog, [ev |-> "ok", url |-> websiteUrl, err |-> Null])
  /\ UNCHANGED <<websiteUrl, merged, mergeIdx, result, error, mergeLog>>

\* a homepage failure that is swallowed like a secondary one
HomepageFetchFail_swallow ==
  /\ pc = "fetch_home"
  /\ \E e \in FetchErrors : fetchLog' = Append(fetchLog, [ev |-> "fail", url |-> websiteUrl, err |-> e])
  /\ pc' = "fetch_more"
  /\ inflight' = {}
  /\ UNCHANGED <<websiteUrl, links, linkIdx, pages, merged, mergeIdx, result, error, mergeLog, homeSeo>>

\* the homepage fetch throws: nothing catches it, collectSignals rejects
HomepageFetchFail ==
  /\ pc = "fetch_home"
  /\ \E e \in FetchErrors :
       /\ error' = e
       /\ fetchLog' = Append(fetchLog, [ev |-> "fail", url |-> websiteUrl, err |-> e])
  /\ pc' = "rejected"
  /\ inflight' = {}
  /\ UNCHANGED <<websiteUrl, links, linkIdx, pages, merged, mergeIdx, result, mergeLog, homeSeo>>

\* fetchAdditionalPages that issues the next fetch without awaiting the last
StartLinkFetch_noawait ==
  /\ pc = "fetch_more"
  /\ linkIdx + Cardinality(inflight) <= Len(links)
  /\ inflight' = inflight \cup {links[linkIdx + Cardinality(inflight)]}
  /\ fetchLog' = Append(fetchLog, [ev |-> "start", url |-> links[linkIdx + Cardinality(inflight)], err |-> Null])
  /\ UNCHANGED <<websiteUrl, pc, links, linkIdx, pages, merged, mergeIdx, result, error, mergeLog, homeSeo>>

\* fetchAdditionalPages: the loop reaches `await fetchHtml(link)`
StartLinkFetch ==
  /\ pc = "fetch_more"
  /\ inflight = {}
  /\ linkIdx <= Len(links)
  /\ inflight' = {links[linkIdx]}
  /\ fetchLog' = Append(fetchLog, [ev |-> "start", url |-> links[linkIdx], err |-> Null])
  /\ UNCHANGED <<websiteUrl, pc, links, linkIdx, pages, merged, mergeIdx, result, error, mergeLog, homeSeo>>

\* the fetch of a ranked link resolves: pages.push({url: link, html})
LinkFetchOk ==
  /\ pc = "fetch_more"
  /\ inflight # {}
  /\ \E html \in SignalDoms : pages' = Append(pages, [url |-> links[linkIdx], html |-> html])
  /\ inflight' = inflight \ {links[linkIdx]}
  /\ linkIdx' = linkIdx + 1
  /\ fetchLog' = Append(fetchLog, [ev |-> "ok", url |-> links[linkIdx], err |-> Null])
  /\ UNCHANGED <<websiteUrl, pc, links, merged, mergeIdx, result, error, mergeLog, homeSeo>>

\* a failed ranked link that is kept as a page without markup
LinkFetchFail_push ==
  /\ pc = "fetch_more"
  /\ inflight # {}
  /\ \E e \in FetchErrors : fetchLog' = Append(fetchLog, [ev |-> "fail", url |-> links[linkIdx], err |-> e])
  /\ pages' = Append(pages, [url |-> links[linkIdx], html |-> BaseDom])
  /\ inflight' = inflight \ {links[linkIdx]}
  /\ linkIdx' = linkIdx + 1
  /\ UNCHANGED <<websiteUrl, pc, links, merged, mergeIdx, result, error, mergeLog, homeSeo>>

\* the fetch of a ranked link throws: the catch block skips the page
LinkFetchFail ==
  /\ pc = "fetch_more"
  /\ inflight # {}
  /\ \E e \in FetchErrors : fetchLog' = Append(fetchLog, [ev |-> "fail", url |-> links[linkIdx], err |-> e])
  /\ inflight' = inflight \ {links[linkIdx]}
  /\ linkIdx' = linkIdx + 1
  /\ UNCHANGED <<websiteUrl, pc, links, pages, merged, mergeIdx, result, error, mergeLog, homeSeo>>

\* fetchAdditionalPages returns; processAndMergeSignals creates the record
BeginMerge ==
  /\ pc = "fetch_more"
  /\ inflight = {}
  /\ linkIdx > Len(links)
  /\ pc' = "merge"
  /\ merged' = [createEmptySignalStructure EXCEPT !.crawled_pages = [i \in 1..Len(pages) |-> pages[i].url]]
  /\ mergeIdx' = 1
  /\ UNCHANGED <<websiteUrl, inflight, links, linkIdx, pages, result, error, fetchLog, mergeLog, homeSeo>>

\* the body of the merge loop for one page
MergeOnePage(m, page, homepageUrl, signals, contacts) ==
  mergeContactSignals(
    mergeSeoSignals(
      mergeBookingSignals(
        mergeChatbotSignals(
          mergeTrackingSignals(m, signals),
          signals, page.url),
        signals, page.url),
      signals, page.url, homepageUrl),
    [contact |-> [phones |-> contacts.phones, emails |-> contacts.emails]])

\* one iteration of the loop of processAndMergeSignals; an exception of
\* extractContacts leaves the loop and rejects collectSignals.  row is the
\* entry of SignalTable for the page's markup: <<markup, signals, contacts>>
MergePage ==
  /\ pc = "merge"
  /\ mergeIdx <= Len(pages)
  /\ \E row \in SignalTable :
       /\ row[1] = pages[mergeIdx].html
       /\ IF row[3].threw
          THEN /\ pc' = "rejected"
               /\ error' = "TypeError: Cannot read properties of null"
               /\ UNCHANGED <<merged, mergeIdx, mergeLog>>
          ELSE /\ merged' = MergeOnePage(merged, pages[mergeIdx], websiteUrl, row[2], row[3])
               /\ mergeIdx' = mergeIdx + 1
               /\ mergeLog' = Append(mergeLog, [url |-> pages[mergeIdx].url, signals |-> row[2], contacts |-> row[3]])
               /\ UNCHANGED <<pc, error>>
  /\ UNCHANGED <<websiteUrl, inflight, links, linkIdx, pages, result, fetchLog, homeSeo>>

\* the loop is over: the record is returned
ReturnRecord ==
  /\ pc = "merge"
  /\ mergeIdx > Len(pages)
  /\ pc' = "done"
  /\ result' = merged
  /\ UNCHANGED <<websiteUrl, inflight, links, linkIdx, pages, merged, mergeIdx, error, fetchLog, mergeLog, homeSeo>>

NextCollect == StartHomepageFetch \/ HomepageFetchOk \/ HomepageFetchFail \/ StartLinkFetch \/ LinkFetchOk \/ LinkFetchFail \/ BeginMerge \/ MergePage \/ ReturnRecord

CollectIdle ==
  /\ websiteUrl = "https://example.com"
  /\ pc = "idle"
  /\ inflight = {}
  /\ links = <<>>
  /\ linkIdx = 1
  /\ pages = <<>>
  /\ merged = Null
  /\ mergeIdx = 1
  /\ result = Null
  /\ error = Null
  /\ fetchLog = <<>>
  /\ mergeLog = <<>>
  /\ homeSeo = Null

\* ------------------------------------------------------------------------
\* The two rankers applied to enumerated inputs
\* ------------------------------------------------------------------------
VARIABLES
  baseUrl,      \* the page the hrefs were taken from
  hrefs,        \* href attributes of its anchors, in document order
  pickStatus,   \* "none", "returned" or "threw"
  picked,       \* result of pickImportantLinks(html, baseUrl, maxLinks)
  maxLinks,     \* its third argument
  selectStatus, \* "none" or "returned"
  selected      \* result of selectImportantPages(baseUrl, hrefs)

rankVars == <<baseUrl, hrefs, pickStatus, picked, maxLinks, selectStatus, selected>>

InitRank ==
  /\ baseUrl \in RankBases
  /\ hrefs \in SeqsUpTo(HrefPool, MaxHrefs)
  /\ maxLinks \in MaxLinksPool
  /\ pickStatus = "none"
  /\ picked = <<>>
  /\ selectStatus = "none"
  /\ selected = <<>>

RankIdle ==
  /\ baseUrl = "https://example.com"
  /\ hrefs = <<>>
  /\ maxLinks = 2
  /\ pickStatus = "idle"
  /\ picked = <<>>
  /\ selectStatus = "idle"
  /\ selected = <<>>

ApplyPickImportantLinks ==
  /\ pickStatus = "none"
  /\ \E r \in {pickImportantLinks(hrefs, baseUrl, maxLinks)} :
       IF r = Threw THEN pickStatus' = "threw" /\ picked' = <<>>
       ELSE pickStatus' = "returned" /\ picked' = r
  /\ UNCHANGED <<baseUrl, hrefs, maxLinks, selectStatus, selected>>
  /\ UNCHANGED collectVars

ApplySelectImportantPages ==
  /\ pickStatus # "none"
  /\ selectStatus = "none"
  /\ selectStatus' = "returned"
  /\ selected' = selectImportantPages(baseUrl, hrefs)
  /\ UNCHANGED <<baseUrl, hrefs, maxLinks, pickStatus, picked>>
  /\ UNCHANGED collectVars

\* ------------------------------------------------------------------------
\* stack/index.js: technology hits and their deduplication.  Confidences are
\* written in hundredths (0.95 is 95).
\* ------------------------------------------------------------------------
createTech(name, category, confidence, evidence) == [name |-> name, category |-> category, confidence |-> confidence, evidence |-> evidence]

uniqueKey(tech) == tech.name \o "::" \o tech.category

\* techMap.set that never replaces the hit held for a key
TechMapPut_keepfirst(techMap, tech) == IF \E i \in 1..Len(techMap) : uniqueKey(techMap[i]) = uniqueKey(tech) THEN techMap ELSE Append(techMap, tech)

\* techMap.set(key, tech) when the key is new or the hit is strictly more
\* confident than the one held; a Map keeps a key at the position of its
\* first insertion
TechMapPut(techMap, tech) ==
  IF \E i \in 1..Len(techMap) : uniqueKey(techMap[i]) = uniqueKey(tech)
  THEN [i \in 1..Len(techMap) |-> IF uniqueKey(techMap[i]) = uniqueKey(tech) /\ techMap[i].confidence < tech.confidence THEN tech ELSE techMap[i]]
  ELSE Append(techMap, tech)

RECURSIVE TechMapOf(_, _)
TechMapOf(technologies, techMap) == Only({ IF t = <<>> THEN m ELSE TechMapOf(Tail(t), TechMapPut(m, Head(t))) : t \in {technologies}, m \in {techMap} })

\* Array.prototype.sort with (a, b) => b.confidence - a.confidence: stable
RECURSIVE InsertByConfidence(_, _)
InsertByConfidence(x, sorted) == Only({ IF s = <<>> THEN <<x>> ELSE IF Head(s).confidence >= x.confidence THEN <<Head(s)>> \o InsertByConfidence(x, Tail(s)) ELSE <<x>> \o s : s \in {sorted} })

RECURSIVE SortByConfidenceDesc(_)
SortByConfidenceDesc(q) == Only({ IF s = <<>> THEN <<>> ELSE InsertByConfidence(s[Len(s)], SortByConfidenceDesc(SubSeq(s, 1, Len(s) - 1))) : s \in {q} })

deduplicateTechnologies(technologies) == SortByConfidenceDesc(TechMapOf(technologies, <<>>))

\* headers are a list of <<name, value>> entries; normalizeHeaders lower-cases
\* the names, a later entry of the same lower-cased name replacing an earlier
normalizeHeaders(headers) == [i \in 1..Len(headers) |-> <<toLowerCase(headers[i][1]), headers[i][2]>>]

RECURSIVE HeaderValue(_, _, _)
HeaderValue(h, name, i) == IF i = 0 THEN Null ELSE IF h[i][1] = name THEN h[i][2] ELSE HeaderValue(h, name, i - 1)

\* h[name]?.includes(part)
HeaderIncludes(h, name, part) == \E v \in {HeaderValue(h, name, Len(h))} : v # Null /\ Includes(v, part)

\* h[name] is truthy
HeaderSet(h, name) == \E v \in {HeaderValue(h, name, Len(h))} : v # Null /\ v # ""

HitIf(cond, tech) == IF cond THEN <<tech>> ELSE <<>>

detectServerAndCDN(headers) ==
  Only({   HitIf(HeaderIncludes(h, "server", "cloudflare"), createTech("Cloudflare", "CDN", 90, "server: " \o HeaderValue(h, "server", Len(h))))
        \o HitIf(HeaderSet(h, "cf-ray") \/ HeaderSet(h, "cf-cache-status"), createTech("Cloudflare", "CDN", 95, "cf-* headers"))
        \o HitIf(HeaderIncludes(h, "x-served-by", "cache") \/ HeaderSet(h, "fastly-debug-digest"), createTech("Fastly", "CDN", 85, "fastly headers"))
        \o HitIf(HeaderSet(h, "x-akamai-transformed") \/ HeaderSet(h, "akamai-cache-status"), createTech("Akamai", "CDN", 90, "akamai headers"))
        \o HitIf(HeaderSet(h, "x-amz-cf-id") \/ HeaderIncludes(h, "via", "CloudFront"), createTech("CloudFront", "CDN", 90, "aws cloudfront headers"))
        \o HitIf(HeaderIncludes(h, "x-powered-by", "php"), createTech("PHP", "Backend", 75, "x-powered-by: " \o HeaderValue(h, "x-powered-by", Len(h))))
        \o HitIf(HeaderIncludes(h, "x-powered-by", "express"), createTech("Express", "Backend", 85, "x-powered-by: " \o HeaderValue(h, "x-powered-by", Len(h))))
        \o HitIf(HeaderIncludes(h, "x-powered-by", "next.js"), createTech("Next.js", "Framework", 85, "x-powered-by: " \o HeaderValue(h, "x-powered-by", Len(h))))
        \o HitIf(HeaderIncludes(h, "x-powered-by", "asp.net"), createTech("ASP.NET", "Backend", 85, "x-powered-by: " \o HeaderValue(h, "x-powered-by", Len(h))))
        \o HitIf(HeaderIncludes(h, "server", "nginx"), createTech("Nginx", "Server", 80, "server: " \o HeaderValue(h, "server", Len(h))))
        \o HitIf(HeaderIncludes(h, "server", "apache"), createTech("Apache", "Server", 80, "server: " \o HeaderValue(h, "server", Len(h))))
        \o HitIf(HeaderIncludes(h, "server", "iis"), createTech("IIS", "Server", 80, "server: " \o HeaderValue(h, "server", Len(h))))
      : h \in {normalizeHeaders(headers)} })

\* detectStack: the hits of the header detector followed by those of the ten
\* markup detectors (htmlHits, in detector order), deduplicated
detectStack(htmlHits, headers) == [technologies |-> deduplicateTechnologies(detectServerAndCDN(headers) \o htmlHits)]

\* response headers of the enumerated pages
HeaderPairs == { <<"Server", "cloudflare">>, <<"CF-Ray", "8a1">>, <<"x-powered-by", "next.js">>, <<"server", "nginx apache">>, <<"X-Powered-By", "php express">> }

\* hits the markup detectors push, in the order detectStack runs them
MarkupHits == << createTech("WordPress", "CMS", 95, "wp-content/generator"), createTech("Next.js", "Framework", 95, "__NEXT_DATA__ / next/static"), createTech("React", "Frontend", 70, "react markers"), createTech("Hotjar", "CRO", 95, "hotjar") >>

MarkupHitLists == { [j \in 1..Len(sel) |-> MarkupHits[sel[j]]] : sel \in { SelectSeq([i \in 1..Len(MarkupHits) |-> i], LAMBDA i : i \in keep) : keep \in SUBSET (1..Len(MarkupHits)) } }

\* hits handed to deduplicateTechnologies directly
HitPool == { createTech("Cloudflare", "CDN", 90, "server: cloudflare"), createTech("Cloudflare", "CDN", 95, "cf-* headers"), createTech("Nginx", "Server", 80, "server: nginx"), createTech("Nginx", "Server", 80, "server: nginx/1.21"), createTech("Apache", "Server", 80, "server: apache"), createTech("React", "Frontend", 70, "react markers") }

VARIABLES
  stackMode,     \* "list": deduplicateTechnologies(hits); "page": detectStack; "idle"
  headers,       \* response headers of the page
  htmlHits,      \* hits of the markup detectors on the page
  hits,          \* the list handed to deduplicateTechnologies
  technologies,  \* its result
  stackStatus,   \* "none", "returned", "twice"
  again          \* deduplicateTechnologies of the result

stackVars == <<stackMode, headers, htmlHits, hits, technologies, stackStatus, again>>

InitStack ==
  /\ \/ stackMode = "list" /\ hits \in SeqsUpTo(HitPool, MaxHits) /\ headers = <<>> /\ htmlHits = <<>>
     \/ stackMode = "page" /\ hits = <<>> /\ headers \in SeqsUpTo(HeaderPairs, MaxHeaders) /\ htmlHits \in MarkupHitLists
  /\ technologies = <<>>
  /\ stackStatus = "none"
  /\ again = <<>>

StackIdle ==
  /\ stackMode = "idle"
  /\ headers = <<>>
  /\ htmlHits = <<>>
  /\ hits = <<>>
  /\ technologies = <<>>
  /\ stackStatus = "idle"
  /\ again = <<>>

ApplyDeduplicateTechnologies ==
  /\ stackMode = "list"
  /\ stackStatus = "none"
  /\ technologies' = deduplicateTechnologies(hits)
  /\ stackStatus' = "returned"
  /\ UNCHANGED <<stackMode, headers, htmlHits, hits, again>>

ApplyDetectStack ==
  /\ stackMode = "page"
  /\ stackStatus = "none"
  /\ hits' = detectServerAndCDN(headers) \o htmlHits
  /\ technologies' = detectStack(htmlHits, headers).technologies
  /\ stackStatus' = "returned"
  /\ UNCHANGED <<stackMode, headers, htmlHits, again>>

\* the result handed to deduplicateTechnologies once more
ApplyDeduplicateAgain ==
  /\ stackStatus = "returned"
  /\ again' = deduplicateTechnologies(technologies)
  /\ stackStatus' = "twice"
  /\ UNCHANGED <<stackMode, headers, htmlHits, hits, technologies>>

NextStack == ApplyDeduplicateTechnologies \/ ApplyDetectStack \/ ApplyDeduplicateAgain

\* ------------------------------------------------------------------------
\* The contact extractor applied to enumerated inputs
\* ------------------------------------------------------------------------
\* raw phone strings: a prefix followed by a body
RawPhonePrefixes == {"", "+", "00", "1", "+1 ", " (", "tel: +"}

RawPhoneBodies == {"", "12345", "7629615", "762-9615", "404762961", "4047629615", "404) 762-9615", "404.762.9615 ext", "404762961512", "4047+629+615", "4047629615123456"}

RawPhonePool == { p \o b : p \in RawPhonePrefixes, b \in RawPhoneBodies } \cup {Null}

\* phone strings handed to deduplicatePhones: forms of one North-American
\* number, its local 7 digits, and other numbers
PhonePool == {"4047629615", "14047629615", "+4047629615", "+14047629615", "7629615", "+7629615", "5551234", "+442079460958"}

MailAnchorDoms ==
  { [BaseDom EXCEPT !.title = "Mail A", !.anchors = <<Anchor("mailto:Info@Example.com", "Email")>>],
    [BaseDom EXCEPT !.title = "Mail B", !.anchors = <<Anchor("mailto:front.desk@smile.co?subject=Hello&body=Hi", "Write"), Anchor("mailto:info@example.com", "Email")>>],
    [BaseDom EXCEPT !.title = "Mail C", !.anchors = <<Anchor("mailto:kate@smile.co", "Kate")>>],
    [BaseDom EXCEPT !.title = "Mail D", !.anchors = <<Anchor("mailto:not-an-address", "Broken"), Anchor("MAILTO:desk@smile.co", "Desk")>>] }

PhoneFormsDom == [BaseDom EXCEPT !.title = "Phones", !.anchors = <<Anchor("tel:(404) 762-9615", "a"), Anchor("tel:404-762-9615", "b"), Anchor("tel:4047629615", "c"), Anchor("tel:+14047629615", "d")>>]

JsonLdDoms ==
  { [BaseDom EXCEPT !.title = "Ld invalid", !.jsonld = <<[valid |-> FALSE, isArray |-> FALSE, nodes |-> <<>>]>>, !.anchors = <<Anchor("mailto:info@example.com", "Email")>>],
    [BaseDom EXCEPT !.title = "Ld number", !.jsonld = <<JsonBlock(FALSE, <<[JsonNull EXCEPT !.t = "num"]>>)>>, !.anchors = <<Anchor("mailto:info@example.com", "Email")>>],
    [BaseDom EXCEPT !.title = "Ld null", !.jsonld = <<JsonBlock(FALSE, <<JsonNull>>)>>, !.anchors = <<Anchor("mailto:info@example.com", "Email")>>],
    [BaseDom EXCEPT !.title = "Ld [null]", !.jsonld = <<JsonBlock(TRUE, <<JsonObj("+14047629615", Null, <<>>), JsonNull>>)>>],
    [BaseDom EXCEPT !.title = "Ld cp [null]", !.jsonld = <<JsonBlock(FALSE, <<JsonObj(Null, "desk@smile.co", <<[t |-> "null", telephone |-> Null, email |-> Null]>>)>>)>>],
    [BaseDom EXCEPT !.title = "Ld cp", !.jsonld = <<JsonBlock(FALSE, <<JsonObj(Null, Null, <<[t |-> "obj", telephone |-> "404-762-9615", email |-> "desk@smile.co"]>>)>>)>>] }

ExtractDoms == ContactDoms \cup MailAnchorDoms \cup {PhoneFormsDom} \cup JsonLdDoms

VARIABLES
  contactMode,    \* "normalize", "dedupe", "extract", "idle"
  rawPhone,       \* argument of normalizePhone
  normalized,     \* its result
  renormalized,   \* normalizePhone of the result
  phoneList,      \* argument of deduplicatePhones
  dedupedPhones,  \* its result
  page,           \* the parsed markup handed to extractContacts
  contacts,       \* its result
  contactStatus   \* "none", "returned", "again", "threw"

contactVars == <<contactMode, rawPhone, normalized, renormalized, phoneList, dedupedPhones, page, contacts, contactStatus>>

NoContacts == [phones |-> <<>>, emails |-> <<>>]

InitContacts ==
  /\ \/ contactMode = "normalize" /\ rawPhone \in RawPhonePool /\ phoneList = <<>> /\ page = BaseDom
     \/ contactMode = "dedupe" /\ rawPhone = Null /\ phoneList \in SeqsUpTo(PhonePool, MaxPhones) /\ page = BaseDom
     \/ contactMode = "extract" /\ rawPhone = Null /\ phoneList = <<>> /\ page \in ExtractDoms
  /\ normalized = Null
  /\ renormalized = Null
  /\ dedupedPhones = <<>>
  /\ contacts = NoContacts
  /\ contactStatus = "none"

ContactsIdle ==
  /\ contactMode = "idle"
  /\ rawPhone = Null
  /\ normalized = Null
  /\ renormalized = Null
  /\ phoneList = <<>>
  /\ dedupedPhones = <<>>
  /\ page = BaseDom
  /\ contacts = NoContacts
  /\ contactStatus = "idle"

ApplyNormalizePhone ==
  /\ contactMode = "normalize"
  /\ contactStatus = "none"
  /\ normalized' = normalizePhone(rawPhone)
  /\ contactStatus' = "returned"
  /\ UNCHANGED <<contactMode, rawPhone, renormalized, phoneList, dedupedPhones, page, contacts>>

\* a value normalizePhone returned is handed to it again
ApplyNormalizePhoneAgain ==
  /\ contactMode = "normalize"
  /\ contactStatus = "returned"
  /\ normalized # Null
  /\ renormalized' = normalizePhone(normalized)
  /\ contactStatus' = "again"
  /\ UNCHANGED <<contactMode, rawPhone, normalized, phoneList, dedupedPhones, page, contacts>>

ApplyDeduplicatePhones ==
  /\ contactMode = "dedupe"
  /\ contactStatus = "none"
  /\ dedupedPhones' = deduplicatePhones(phoneList)
  /\ contactStatus' = "returned"
  /\ UNCHANGED <<contactMode, rawPhone, normalized, renormalized, phoneList, page, contacts>>

ApplyExtractContacts ==
  /\ contactMode = "extract"
  /\ contactStatus = "none"
  /\ \E c \in {extractContacts(page)} :
       IF c.threw THEN contactStatus' = "threw" /\ contacts' = NoContacts
       ELSE contactStatus' = "returned" /\ contacts' = [phones |-> c.phones, emails |-> c.emails]
  /\ UNCHANGED <<contactMode, rawPhone, normalized, renormalized, phoneList, dedupedPhones, page>>

NextContacts == ApplyNormalizePhone \/ ApplyNormalizePhoneAgain \/ ApplyDeduplicatePhones \/ ApplyExtractContacts

\* ------------------------------------------------------------------------
\* scrapeSiteSnapshot (utils/sanitizeFileName.js): one call, cut at its
\* awaits.  The network's answer to a fetch is an input of the step that
\* resumes after the await.
\* ------------------------------------------------------------------------
\* normalizeUrl: null for a falsy or blank input, the trimmed text when it
\* starts with a scheme, otherwise https:// before the text without its
\* leading slashes
RECURSIVE StripLeadingSlashes(_)
StripLeadingSlashes(s) == IF s # "" /\ Char(s, 1) = "/" THEN StripLeadingSlashes(Drop(s, 1)) ELSE s

normalizeUrl(input) ==
  IF input = Null \/ input = "" THEN Null
  ELSE Only({ IF trimmed = "" THEN Null
              ELSE IF StartsWith(trimmed, "http://") \/ StartsWith(trimmed, "https://") THEN trimmed
              ELSE "https://" \o StripLeadingSlashes(trimmed) : trimmed \in {Trim(input)} })

\* HTTP_CONFIG.ACCEPTED_CONTENT_TYPES
ACCEPTED_CONTENT_TYPES == <<"text/html", "application/xhtml+xml">>

\* String(error?.message || error) for an Error object: its message, or for
\* an empty message the text of the error, which is its name
ErrorText(err) == IF err.message # "" THEN err.message ELSE err.name

\* What fetch() throws for a URL it cannot parse
InvalidUrlError == [name |-> "TypeError", message |-> "Invalid URL"]

\* What fetch() or a read of the body throws when the timer aborts it
AbortError == [name |-> "AbortError", message |-> "This operation was aborted"]

\* A body that is read to its end: no error
NoError == [name |-> "", message |-> ""]

\* The other errors of the network: a failed connection, and an error object
\* without a message
NetworkErrors == {[name |-> "TypeError", message |-> "fetch failed"], [name |-> "Error", message |-> ""]}

\* The markup of the pages served: the href attributes of their anchors
SnapPages == {<<>>, <<"/contact">>, <<"/impressum", "/kontakt">>, <<"https://other.com/contact", "/about-us">>}

\* The answers of the network to one fetch: fetch() throws (error, abort
\* before the response), or a response arrives with a status, a content type,
\* a final URL and a body that is read to its end or whose read throws
\* (error, abort while reading)
FetchAnswers(url) ==
  { [kind |-> "throw", error |-> e, status |-> 0, contentType |-> "", url |-> url, body |-> <<>>] : e \in NetworkErrors \cup {AbortError} }
  \cup { [kind |-> "response", error |-> e, status |-> s, contentType |-> ct, url |-> u, body |-> b] :
           e \in {NoError, AbortError}, s \in {200, 404, 500},
           ct \in {"text/html; charset=utf-8", "application/json", ""},
           u \in {url, "https://www.smile.co/"}, b \in SnapPages }

\* fetchHtmlWithLimits: the whole body of the function is inside try/catch,
\* so every throw becomes a result with ok false, status 0 and the error text
fetchHtmlWithLimits(url, answer) ==
  IF ~IsAbsoluteUrl(url) THEN [ok |-> FALSE, url |-> url, status |-> 0, contentType |-> "", html |-> <<>>, error |-> ErrorText(InvalidUrlError)]
  ELSE IF answer.kind = "throw" THEN [ok |-> FALSE, url |-> url, status |-> 0, contentType |-> "", html |-> <<>>, error |-> ErrorText(answer.error)]
  ELSE IF ~(answer.status \in 200..299) THEN [ok |-> FALSE, url |-> url, status |-> answer.status, contentType |-> answer.contentType, html |-> <<>>, error |-> Null]
  ELSE IF ~(\E k \in 1..Len(ACCEPTED_CONTENT_TYPES) : Includes(answer.contentType, ACCEPTED_CONTENT_TYPES[k])) THEN [ok |-> FALSE, url |-> url, status |-> answer.status, contentType |-> answer.contentType, html |-> <<>>, error |-> Null]
  ELSE IF answer.error # NoError THEN [ok |-> FALSE, url |-> url, status |-> 0, contentType |-> "", html |-> <<>>, error |-> ErrorText(answer.error)]
  ELSE [ok |-> TRUE, url |-> answer.url, status |-> answer.status, contentType |-> answer.contentType, html |-> answer.body, error |-> Null]

\* FetchError without the fallback text: the error of the fetch result as it is
FetchError_nofallback(baseFetch) == baseFetch.error

\* baseFetch.error || `Fetch failed (${baseFetch.status})`
FetchError(baseFetch) == IF baseFetch.error # Null /\ baseFetch.error # "" THEN baseFetch.error ELSE "Fetch failed (" \o ToString(baseFetch.status) \o ")"

\* buildSiteTokens: the lines that name the pages; the lines made of the
\* signals of the markup (title, headings, vendors, forms) are not modelled
RECURSIVE JoinUrls(_)
JoinUrls(ps) == IF ps = <<>> THEN "" ELSE IF Len(ps) = 1 THEN ps[1].url ELSE ps[1].url \o ", " \o JoinUrls(Tail(ps))

buildSiteTokens(snapshot) ==
  "URL: " \o snapshot.base.url \o (IF Len(snapshot.extraPages) > 0 THEN "\nEXTRA_PAGES_CHECKED: " \o JoinUrls(snapshot.extraPages) ELSE "")

\* The arguments of the calls
SnapshotInputs == {Null, "", "  ", "smile.co", "//smile.co/", " https://smile.co ", "http://smile.co/", "not a url", "https://"}

VARIABLES
  snapPc,        \* "idle", "start", "base" (awaiting the base fetch), "extra" (awaiting a page fetch), "done"
  siteUrl,       \* the argument websiteUrl
  normalizedUrl, \* normalizeUrl(siteUrl)
  baseAnswer,    \* what the network answered to the base fetch
  baseSignals,   \* extractPageSignals of the base page: its URL
  importantUrls, \* the pages still to fetch
  extraPages,    \* the signals pushed by fetchAdditionalPages
  skipped,       \* the number of page fetches that failed and were skipped
  snapResult     \* the value the promise resolved to

snapVars == <<snapPc, siteUrl, normalizedUrl, baseAnswer, baseSignals, importantUrls, extraPages, skipped, snapResult>>

NoAnswer == [kind |-> "none", error |-> NoError, status |-> 0, contentType |-> "", url |-> "", body |-> <<>>]

\* base: null is written as a base without a URL
NoBase == [url |-> Null]

NoResult == [ok |-> FALSE, error |-> Null, base |-> NoBase, extraPages |-> <<>>, tokens |-> ""]

InitSnapshot ==
  /\ snapPc = "start"
  /\ siteUrl \in SnapshotInputs
  /\ normalizedUrl = Null
  /\ baseAnswer = NoAnswer
  /\ baseSignals = NoBase
  /\ importantUrls = <<>>
  /\ extraPages = <<>>
  /\ skipped = 0
  /\ snapResult = NoResult

SnapshotIdle ==
  /\ snapPc = "idle"
  /\ siteUrl = Null
  /\ normalizedUrl = Null
  /\ baseAnswer = NoAnswer
  /\ baseSignals = NoBase
  /\ importantUrls = <<>>
  /\ extraPages = <<>>
  /\ skipped = 0
  /\ snapResult = NoResult

\* The successful return: { ok: true, base, extraPages, tokens }
SnapshotOf(base, ps) == [ok |-> TRUE, error |-> Null, base |-> base, extraPages |-> ps, tokens |-> buildSiteTokens([base |-> base, extraPages |-> ps])]

\* scrapeSiteSnapshot up to its first await: an input without a URL returns
\* at once, any other starts the base fetch
ScrapeStart ==
  /\ snapPc = "start"
  /\ \E n \in {normalizeUrl(siteUrl)} :
       /\ normalizedUrl' = n
       /\ IF n = Null
          THEN /\ snapResult' = [ok |-> FALSE, error |-> "Invalid website_url", base |-> NoBase, extraPages |-> <<>>, tokens |-> ""]
               /\ snapPc' = "done"
          ELSE /\ snapResult' = snapResult
               /\ snapPc' = "base"
  /\ UNCHANGED <<siteUrl, baseAnswer, baseSignals, importantUrls, extraPages, skipped>>

\* The base fetch settles with a failure: the early return
BaseFetchFailed ==
  /\ snapPc = "base"
  /\ \E answer \in FetchAnswers(normalizedUrl) : \E baseFetch \in {fetchHtmlWithLimits(normalizedUrl, answer)} :
       /\ ~baseFetch.ok
       /\ baseAnswer' = answer
       /\ snapResult' = [ok |-> FALSE, error |-> FetchError(baseFetch), base |-> [url |-> normalizedUrl], extraPages |-> <<>>, tokens |-> ""]
  /\ snapPc' = "done"
  /\ UNCHANGED <<siteUrl, normalizedUrl, baseSignals, importantUrls, extraPages, skipped>>

\* The base fetch settles with a page: its signals are extracted, its links
\* are ranked and fetchAdditionalPages starts on them; with no page to fetch
\* the snapshot is returned
BaseFetchOk ==
  /\ snapPc = "base"
  /\ \E answer \in FetchAnswers(normalizedUrl) : \E baseFetch \in {fetchHtmlWithLimits(normalizedUrl, answer)} :
       /\ baseFetch.ok
       /\ baseAnswer' = answer
       /\ baseSignals' = [url |-> baseFetch.url]
       /\ \E urls \in {selectImportantPages(baseFetch.url, baseFetch.html)} :
            /\ importantUrls' = urls
            /\ IF urls = <<>>
               THEN snapPc' = "done" /\ snapResult' = SnapshotOf([url |-> baseFetch.url], <<>>)
               ELSE snapPc' = "extra" /\ snapResult' = snapResult
  /\ UNCHANGED <<siteUrl, normalizedUrl, extraPages, skipped>>

\* fetchAdditionalPages: the fetch of the next page settles; a failed fetch
\* is skipped, a page is pushed; after the last page the snapshot is returned
ExtraFetchSettles ==
  /\ snapPc = "extra"
  /\ importantUrls # <<>>
  /\ \E answer \in FetchAnswers(Head(importantUrls)) : \E fetchResult \in {fetchHtmlWithLimits(Head(importantUrls), answer)} :
       \E ps \in {IF fetchResult.ok THEN Append(extraPages, [url |-> fetchResult.url]) ELSE extraPages} :
         /\ extraPages' = ps
         /\ skipped' = IF fetchResult.ok THEN skipped ELSE skipped + 1
         /\ IF Tail(importantUrls) = <<>>
            THEN snapPc' = "done" /\ snapResult' = SnapshotOf(baseSignals, ps)
            ELSE snapPc' = "extra" /\ snapResult' = snapResult
  /\ importantUrls' = Tail(importantUrls)
  /\ UNCHANGED <<siteUrl, normalizedUrl, baseAnswer, baseSignals>>

NextSnapshot == ScrapeStart \/ BaseFetchFailed \/ BaseFetchOk \/ ExtraFetchSettles

\* ------------------------------------------------------------------------
\* One page fetch, cut at its awaits: fetchHtml (signals/fetch.js) and
\* fetchHtmlWithLimits with readResponseWithLimit (utils/sanitizeFileName.js).
\* The server's part (headers, chunks of the body, end of the body, errors)
\* is the environment; the timer is the program's.
\* ------------------------------------------------------------------------
\* the most chunks a body is sent in
MaxChunks == 2

\* the most bytes of one chunk
MaxChunkBytes == 2

\* the values of options.maxBytes the fetches are made with
MaxBytesPool == {2, 3}

Fetchers == {"fetchHtml", "fetchHtmlWithLimits"}

\* the bodies: the byte lengths of their chunks
Bodies == SeqsUpTo(1..MaxChunkBytes, MaxChunks)

VARIABLES
  fetcher,      \* the function called
  fetchPhase,   \* "idle", "start", "headers" (awaiting fetch), "body" (awaiting the body), "settled"
  timer,        \* "none", "armed" (setTimeout pending), "fired", "cleared"
  streaming,    \* response.body has a reader; otherwise response.text() is used
  maxBytes,     \* config.maxBytes
  resBody,      \* the chunks the server sends
  chunks,       \* the chunks not yet delivered
  totalBytes,   \* the bytes delivered so far
  retained,     \* the bytes kept for the result
  fetchStatus   \* "pending", "ok" (a page is returned), "failed" (ok false, or a throw of fetchHtml)

fetchVars == <<fetcher, fetchPhase, timer, streaming, maxBytes, resBody, chunks, totalBytes, retained, fetchStatus>>

InitFetch ==
  /\ fetcher \in Fetchers
  /\ fetchPhase = "start"
  /\ timer = "none"
  /\ streaming \in (IF fetcher = "fetchHtml" THEN {FALSE} ELSE BOOLEAN)
  /\ maxBytes \in (IF fetcher = "fetchHtml" THEN {0} ELSE MaxBytesPool)
  /\ resBody \in Bodies
  /\ chunks = resBody
  /\ totalBytes = 0
  /\ retained = 0
  /\ fetchStatus = "pending"

FetchIdle ==
  /\ fetcher = "none"
  /\ fetchPhase = "idle"
  /\ timer = "none"
  /\ streaming = FALSE
  /\ maxBytes = 0
  /\ resBody = <<>>
  /\ chunks = <<>>
  /\ totalBytes = 0
  /\ retained = 0
  /\ fetchStatus = "pending"

\* finally { clearTimeout(timeoutId) }: only fetchHtmlWithLimits has a timer
Cleared == IF timer = "armed" THEN "cleared" ELSE timer

\* The call up to await fetch(...): fetchHtmlWithLimits arms its timer and
\* passes the signal, fetchHtml passes no signal
FetchBegin ==
  /\ fetchPhase = "start"
  /\ fetchPhase' = "headers"
  /\ timer' = IF fetcher = "fetchHtmlWithLimits" THEN "armed" ELSE "none"
  /\ UNCHANGED <<fetcher, streaming, maxBytes, resBody, chunks, totalBytes, retained, fetchStatus>>

\* The response arrives.  fetchHtml throws on a status that is not 2xx;
\* fetchHtmlWithLimits returns ok false for it and for a content type that is
\* not HTML; otherwise the body is awaited
HeadersArrive ==
  /\ fetchPhase = "headers"
  /\ \E status \in {200, 404}, isHtmlContent \in BOOLEAN :
       IF status \in 200..299 /\ (fetcher = "fetchHtml" \/ isHtmlContent)
       THEN fetchPhase' = "body" /\ fetchStatus' = fetchStatus /\ timer' = timer
       ELSE fetchPhase' = "settled" /\ fetchStatus' = "failed" /\ timer' = Cleared
  /\ UNCHANGED <<fetcher, streaming, maxBytes, resBody, chunks, totalBytes, retained>>

\* fetch(...) rejects: fetchHtml rejects with it, fetchHtmlWithLimits catches
FetchRejects ==
  /\ fetchPhase = "headers"
  /\ fetchPhase' = "settled"
  /\ fetchStatus' = "failed"
  /\ timer' = Cleared
  /\ UNCHANGED <<fetcher, streaming, maxBytes, resBody, chunks, totalBytes, retained>>

\* A chunk of the body arrives.  readResponseWithLimit with a reader adds its
\* length to totalBytes; past maxBytes it keeps the part of the chunk up to
\* maxBytes, leaves the loop and the page is returned with ok true.  Without
\* a reader, and in fetchHtml, text() buffers the chunk.
ChunkArrives ==
  /\ fetchPhase = "body"
  /\ chunks # <<>>
  /\ chunks' = Tail(chunks)
  /\ \E total \in {totalBytes + Head(chunks)} :
       /\ totalBytes' = total
       /\ IF fetcher = "fetchHtmlWithLimits" /\ streaming
          THEN IF total > maxBytes
               THEN /\ retained' = retained + (maxBytes - (total - Head(chunks)))
                    /\ fetchPhase' = "settled"
                    /\ fetchStatus' = "ok"
                    /\ timer' = Cleared
               ELSE /\ retained' = retained + Head(chunks)
                    /\ UNCHANGED <<fetchPhase, fetchStatus, timer>>
          ELSE /\ retained' = total
               /\ UNCHANGED <<fetchPhase, fetchStatus, timer>>
  /\ UNCHANGED <<fetcher, streaming, maxBytes, resBody>>

\* The body ends: the page is returned; without a reader the text is cut to
\* maxBytes first (text.slice(0, maxBytes))
BodyEnds ==
  /\ fetchPhase = "body"
  /\ chunks = <<>>
  /\ fetchPhase' = "settled"
  /\ fetchStatus' = "ok"
  /\ timer' = Cleared
  /\ retained' = IF fetcher = "fetchHtmlWithLimits" /\ ~streaming /\ totalBytes > maxBytes THEN maxBytes ELSE retained
  /\ UNCHANGED <<fetcher, streaming, maxBytes, resBody, chunks, totalBytes>>

\* The read of the body fails (connection lost)
BodyReadFails ==
  /\ fetchPhase = "body"
  /\ fetchPhase' = "settled"
  /\ fetchStatus' = "failed"
  /\ timer' = Cleared
  /\ retained' = 0
  /\ UNCHANGED <<fetcher, streaming, maxBytes, resBody, chunks, totalBytes>>

\* The timer of fetchHtmlWithLimits fires: controller.abort() makes the
\* pending fetch or read reject, and the catch returns ok false
TimerFires ==
  /\ timer = "armed"
  /\ fetchPhase \in {"headers", "body"}
  /\ timer' = "fired"
  /\ fetchPhase' = "settled"
  /\ fetchStatus' = "failed"
  /\ retained' = 0
  /\ UNCHANGED <<fetcher, streaming, maxBytes, resBody, chunks, totalBytes>>

NextFetch == FetchBegin \/ HeadersArrive \/ FetchRejects \/ ChunkArrives \/ BodyEnds \/ BodyReadFails \/ TimerFires

\* ------------------------------------------------------------------------
\* detectVendorsFromHtml (utils/sanitizeFileName.js): the vendors of a page
\* of the snapshot.  The markup of the model has no script src outside the
\* html text, no generator meta tag and no anchors.
\* ------------------------------------------------------------------------
\* VENDOR_PATTERNS: name and pattern
VENDOR_PATTERNS == [
  chat |-> << <<"tawk.to", "tawk.to">>, <<"crisp", "crisp">>, <<"intercom", "intercom">>, <<"drift", "drift">>, <<"zendesk", "zendesk">>, <<"freshchat", "freshchat">>, <<"livechat", "livechat">>, <<"userlike", "userlike">>, <<"hubspot chat", "hubspot">>, <<"facebook chat", "customerchat">> >>,
  booking |-> << <<"Doctolib", "doctolib">>, <<"jameda", "jameda">>, <<"samedi", "samedi">>, <<"Dr. Flex", "drflex">>, <<"CLICKDOC", "clickdoc">>, <<"generic/termin", "termin">> >>,
  tracking |-> << <<"Meta Pixel", "facebook.com/tr">>, <<"Hotjar", "hotjar">>, <<"Microsoft Clarity", "clarity.ms">> >>,
  consent |-> << <<"Cookiebot", "cookiebot">>, <<"OneTrust", "onetrust">>, <<"Usercentrics", "usercentrics">>, <<"Borlabs", "borlabs">>, <<"consentmanager", "consentmanager">>, <<"iubenda", "iubenda">> >>,
  stack |-> << <<"WordPress", "wp-content">>, <<"Elementor", "elementor">>, <<"Wix", "wix">>, <<"Shopify", "shopify">>, <<"Webflow", "webflow">> >> ]

\* detectVendorCategory: the names of the patterns found, in table order
RECURSIVE detectVendorCategory(_, _)
detectVendorCategory(patterns, text) ==
  IF patterns = <<>> THEN <<>>
  ELSE (IF Includes(text, Head(patterns)[2]) THEN <<Head(patterns)[1]>> ELSE <<>>) \o detectVendorCategory(Tail(patterns), text)

\* the character classes [A-Z0-9] and \d
UpperAlnum == "ABCDEFGHIJKLMNOPQRSTUVWXYZ0123456789"

\* the end of the longest run of characters of a class that starts at i
\* (i - 1 when there is none)
RECURSIVE RunEnd(_, _, _)
RunEnd(s, class, i) == IF i <= Len(s) /\ Includes(class, Char(s, i)) THEN RunEnd(s, class, i + 1) ELSE i - 1

\* the end of a match of /GTM-[A-Z0-9]+/ or /G-[A-Z0-9]+/ that starts at i,
\* or 0
IdMatchEnd(s, prefix, i) ==
  IF i + Len(prefix) - 1 <= Len(s) /\ SubSeq(s, i, i + Len(prefix) - 1) = prefix
  THEN Only({ IF e >= i + Len(prefix) THEN e ELSE 0 : e \in {RunEnd(s, UpperAlnum, i + Len(prefix))} })
  ELSE 0

\* the end of a match of /UA-\d+-\d+/ that starts at i, or 0: the first run
\* of digits gives back digits until a hyphen and a digit follow
UaMatchEnd(s, i) ==
  IF i + 2 <= Len(s) /\ SubSeq(s, i, i + 2) = "UA-"
  THEN Only({ IF e1 >= i + 3 /\ e1 + 2 <= Len(s) /\ Char(s, e1 + 1) = "-" /\ Includes(Digits, Char(s, e1 + 2))
              THEN RunEnd(s, Digits, e1 + 2) ELSE 0 : e1 \in {RunEnd(s, Digits, i + 3)} })
  ELSE 0

\* String.prototype.match with the g flag: the matches from left to right,
\* each search starting after the match before; kind is "GTM-", "G-" or "UA-"
RECURSIVE MatchAll(_, _, _)
MatchAll(s, kind, i) ==
  IF i > Len(s) THEN <<>>
  ELSE Only({ IF e = 0 THEN MatchAll(s, kind, i + 1) ELSE <<SubSeq(s, i, e)>> \o MatchAll(s, kind, e + 1) :
              e \in {IF kind = "UA-" THEN UaMatchEnd(s, i) ELSE IdMatchEnd(s, kind, i)} })

RECURSIVE JoinWith(_, _)
JoinWith(q, sep) == IF q = <<>> THEN "" ELSE IF Len(q) = 1 THEN q[1] ELSE q[1] \o sep \o JoinWith(Tail(q), sep)

\* one entry KIND:id1,id2 when the kind has a match.  The matches are
\* already in upper case, so toUpperCase changes nothing
IdEntry(html, kind, label) == Only({ IF ids = <<>> THEN <<>> ELSE <<label \o ":" \o JoinWith(unique(ids), ",")>> : ids \in {MatchAll(html, kind, 1)} })

\* extractGoogleTrackingIds
extractGoogleTrackingIds(html) == IdEntry(html, "GTM-", "GTM") \o IdEntry(html, "G-", "GA4") \o IdEntry(html, "UA-", "UA")

\* detectVendorsFromHtml: every search, the search for identifiers included,
\* is made in the html in lower case
detectVendorsFromHtml(html) ==
  Only({ [chatVendors |-> unique(detectVendorCategory(VENDOR_PATTERNS.chat, normalizedHtml)),
          bookingVendors |-> unique(detectVendorCategory(VENDOR_PATTERNS.booking, normalizedHtml)),
          tracking |-> unique(detectVendorCategory(VENDOR_PATTERNS.tracking, normalizedHtml) \o extractGoogleTrackingIds(normalizedHtml)),
          consent |-> unique(detectVendorCategory(VENDOR_PATTERNS.consent, normalizedHtml)),
          stack |-> unique(detectVendorCategory(VENDOR_PATTERNS.stack, normalizedHtml)),
          legalPages |-> <<>>] : normalizedHtml \in {toLowerCase(html)} })

\* the most pieces of markup on a page
MaxSnippets == 2

\* pieces of markup: Google identifiers as the tags write them, one in
\* lower case, and vendor scripts
Snippets == {"GTM-AB12", "GTM-K9", "G-XY9Z", "UA-123-4", "gtm-ab12", "hotjar.com", "facebook.com/tr", "wp-content"}

VendorPages == { JoinWith(q, " ") : q \in SeqsUpTo(Snippets, MaxSnippets) }

NoVendors == [chatVendors |-> <<>>, bookingVendors |-> <<>>, tracking |-> <<>>, consent |-> <<>>, stack |-> <<>>, legalPages |-> <<>>]

VARIABLES
  vendorHtml,    \* the html of the page
  vendorsFound,  \* the result of detectVendorsFromHtml
  vendorStatus   \* "idle", "page", "detected"

vendorVars == <<vendorHtml, vendorsFound, vendorStatus>>

InitVendors ==
  /\ vendorHtml \in VendorPages
  /\ vendorsFound = NoVendors
  /\ vendorStatus = "page"

VendorsIdle ==
  /\ vendorHtml = ""
  /\ vendorsFound = NoVendors
  /\ vendorStatus = "idle"

\* extractPageSignals calls detectVendorsFromHtml on the page
ApplyDetectVendors ==
  /\ vendorStatus = "page"
  /\ vendorsFound' = detectVendorsFromHtml(vendorHtml)
  /\ vendorStatus' = "detected"
  /\ UNCHANGED vendorHtml

NextVendors == ApplyDetectVendors

\* ------------------------------------------------------------------------
\* Stage 1, the batch of leads.  Two versions of the loop are in src/index.js:
\* processBatch with processLead(lead, progress, options) (pipeline
\* "processBatch"), and main with the processLead that also collects contact
\* details (pipeline "main").  A lead is cut at its awaits; the outcome of a
\* collection stage and of the write of the output file is the environment's.
\* ------------------------------------------------------------------------
\* the most leads of a batch
MaxLeads == 2

Pipelines == {"processBatch", "main"}

StageOutcomes == {"ok", "fail"}

\* the result object of a lead before its first stage
NewResult(ok) == [status |-> ok, error |-> Null, errors |-> {}, pagespeed |-> FALSE, signals |-> FALSE, contacts |-> FALSE, crux |-> FALSE, stack |-> FALSE]

NoRecord == [status |-> "none", error |-> Null, errors |-> {}, pagespeed |-> FALSE, signals |-> FALSE, contacts |-> FALSE, crux |-> FALSE, stack |-> FALSE]

VARIABLES
  pipeline,        \* the version of the loop
  leadCount,       \* leads.length
  force,           \* options.force
  outputExists,    \* per lead: the output file is already there
  leadIdx,         \* the lead of the loop
  leadPc,          \* "idle", "next", "pagespeed", "signals", "contacts", "crux", "stack", "save", "sleep", "finished", "crashed"
  leadResult,      \* the result object of the lead in hand
  criticalFailure, \* processLead's flag
  stagesRun,       \* per lead: the collection stages started, in order
  outputs,         \* per lead: the record written to its output file
  returned,        \* per lead: how processLead ended
  progress,        \* DataCollectionProgress / the counters of main
  events           \* the starts and ends of leads and the delays, in order

leadVars == <<pipeline, leadCount, force, outputExists, leadIdx, leadPc, leadResult, criticalFailure, stagesRun, outputs, returned, progress, events>>

NoProgress == [current |-> 0, successful |-> 0, partial |-> 0, failed |-> 0, skipped |-> 0]

InitLeads ==
  /\ pipeline \in Pipelines
  /\ leadCount \in 1..MaxLeads
  /\ force \in BOOLEAN
  /\ outputExists \in [1..leadCount -> BOOLEAN]
  /\ leadIdx = 1
  /\ leadPc = "next"
  /\ leadResult = NoRecord
  /\ criticalFailure = FALSE
  /\ stagesRun = [i \in 1..leadCount |-> <<>>]
  /\ outputs = [i \in 1..leadCount |-> NoRecord]
  /\ returned = [i \in 1..leadCount |-> "none"]
  /\ progress = NoProgress
  /\ events = <<>>

LeadsIdle ==
  /\ pipeline = "idle"
  /\ leadCount = 0
  /\ force = FALSE
  /\ outputExists = <<>>
  /\ leadIdx = 0
  /\ leadPc = "idle"
  /\ leadResult = NoRecord
  /\ criticalFailure = FALSE
  /\ stagesRun = <<>>
  /\ outputs = <<>>
  /\ returned = <<>>
  /\ progress = NoProgress
  /\ events = <<>>

\* DataCollectionProgress.update(status); main counts ok and partial as ok
Update(p, status) ==
  [p EXCEPT !.current = @ + 1,
            !.successful = IF status \in {"success", "ok"} THEN @ + 1 ELSE @,
            !.partial = IF status = "partial" THEN @ + 1 ELSE @,
            !.failed = IF status = "failed" THEN @ + 1 ELSE @,
            !.skipped = IF status = "skipped" THEN @ + 1 ELSE @]

\* the stage is started for the lead in hand
Started(stage) == stagesRun' = [stagesRun EXCEPT ![leadIdx] = Append(@, stage)]

\* the loop goes to the lead after the one in hand
ToNextLead == leadIdx' = leadIdx + 1 /\ leadPc' = IF leadIdx + 1 > leadCount THEN "finished" ELSE "next"

\* processLead has returned to the loop with the counter at current.
\* processBatch: if (progress.current < leads.length) await sleep(DELAY_MS).
\* main: if (i < total - 1) await sleep(DELAY_MS)
AfterReturn(current, how) ==
  /\ returned' = [returned EXCEPT ![leadIdx] = how]
  /\ IF (pipeline = "processBatch" /\ current < leadCount) \/ (pipeline = "main" /\ leadIdx - 1 < leadCount - 1)
     THEN /\ events' = events \o << <<"end", leadIdx>>, <<"sleep", leadIdx>> >>
          /\ leadPc' = "sleep"
          /\ leadIdx' = leadIdx
     ELSE /\ events' = Append(events, <<"end", leadIdx>>)
          /\ ToNextLead

\* The loop takes a lead and processLead runs up to its first await: a lead
\* whose output exists is skipped unless forced, any other gets its result
\* object and its PageSpeed stage is started
LeadStart ==
  /\ leadPc = "next"
  /\ leadIdx <= leadCount
  /\ criticalFailure' = FALSE
  /\ IF ~force /\ outputExists[leadIdx]
     THEN /\ \E p \in {Update(progress, "skipped")} :
               /\ progress' = p
               /\ returned' = [returned EXCEPT ![leadIdx] = "skipped"]
               /\ IF (pipeline = "processBatch" /\ p.current < leadCount) \/ (pipeline = "main" /\ leadIdx - 1 < leadCount - 1)
                  THEN /\ events' = events \o << <<"start", leadIdx>>, <<"end", leadIdx>>, <<"sleep", leadIdx>> >>
                       /\ leadPc' = "sleep"
                       /\ leadIdx' = leadIdx
                  ELSE /\ events' = events \o << <<"start", leadIdx>>, <<"end", leadIdx>> >>
                       /\ ToNextLead
          /\ UNCHANGED <<leadResult, stagesRun>>
     ELSE /\ leadResult' = NewResult(IF pipeline = "main" THEN "ok" ELSE "success")
          /\ Started("pagespeed")
          /\ leadPc' = "pagespeed"
          /\ events' = Append(events, <<"start", leadIdx>>)
          /\ UNCHANGED <<leadIdx, returned, progress>>
  /\ UNCHANGED <<pipeline, leadCount, force, outputExists, outputs>>

\* processBatch's processLead: the PageSpeed stage settles.  A failure is
\* critical: every later stage is skipped and the result is saved
PageSpeedStage ==
  /\ pipeline = "processBatch"
  /\ leadPc = "pagespeed"
  /\ \E outcome \in StageOutcomes :
       IF outcome = "ok"
       THEN /\ leadResult' = [leadResult EXCEPT !.pagespeed = TRUE]
            /\ Started("signals")
            /\ leadPc' = "signals"
            /\ UNCHANGED criticalFailure
       ELSE /\ leadResult' = [leadResult EXCEPT !.errors = @ \cup {"pagespeed"}, !.status = "failed", !.error = "Critical stage failed"]
            /\ criticalFailure' = TRUE
            /\ leadPc' = "save"
            /\ UNCHANGED stagesRun
  /\ UNCHANGED <<pipeline, leadCount, force, outputExists, leadIdx, outputs, returned, progress, events>>

\* processBatch's processLead: the signals stage settles; a failure is critical
SignalsStage ==
  /\ pipeline = "processBatch"
  /\ leadPc = "signals"
  /\ \E outcome \in StageOutcomes :
       IF outcome = "ok"
       THEN /\ leadResult' = [leadResult EXCEPT !.signals = TRUE]
            /\ Started("crux")
            /\ leadPc' = "crux"
            /\ UNCHANGED criticalFailure
       ELSE /\ leadResult' = [leadResult EXCEPT !.errors = @ \cup {"signals"}, !.status = "failed", !.error = "Critical stage failed"]
            /\ criticalFailure' = TRUE
            /\ leadPc' = "save"
            /\ UNCHANGED stagesRun
  /\ UNCHANGED <<pipeline, leadCount, force, outputExists, leadIdx, outputs, returned, progress, events>>

\* processBatch's processLead: executeCruxStage returns data or null
CruxStage ==
  /\ pipeline = "processBatch"
  /\ leadPc = "crux"
  /\ \E outcome \in StageOutcomes :
       leadResult' = IF outcome = "ok" THEN [leadResult EXCEPT !.crux = TRUE] ELSE [leadResult EXCEPT !.errors = @ \cup {"crux"}]
  /\ Started("stack")
  /\ leadPc' = "stack"
  /\ UNCHANGED <<pipeline, leadCount, force, outputExists, leadIdx, criticalFailure, outputs, returned, progress, events>>

\* processBatch's processLead: executeStackStage returns data or null; the
\* status becomes partial when a stage left an error
StackStage ==
  /\ pipeline = "processBatch"
  /\ leadPc = "stack"
  /\ \E outcome \in StageOutcomes :
       \E r \in {IF outcome = "ok" THEN [leadResult EXCEPT !.stack = TRUE] ELSE [leadResult EXCEPT !.errors = @ \cup {"stack"}]} :
         leadResult' = IF r.errors # {} THEN [r EXCEPT !.status = "partial"] ELSE r
  /\ leadPc' = "save"
  /\ UNCHANGED <<pipeline, leadCount, force, outputExists, leadIdx, criticalFailure, stagesRun, outputs, returned, progress, events>>

\* processBatch's processLead: saveLeadData writes the record, the progress
\* is updated and the result returned to the loop, which sleeps unless the
\* lead was the last.  When the write throws, processLead rejects and the
\* catch of the loop counts a failure and goes to the next lead
SaveLead ==
  /\ pipeline = "processBatch"
  /\ leadPc = "save"
  /\ \E written \in BOOLEAN :
       IF written
       THEN /\ outputs' = [outputs EXCEPT ![leadIdx] = leadResult]
            /\ \E p \in {Update(progress, leadResult.status)} :
                 progress' = p /\ AfterReturn(p.current, leadResult.status)
       ELSE /\ outputs' = outputs
            /\ progress' = Update(progress, "failed")
            /\ returned' = [returned EXCEPT ![leadIdx] = "threw"]
            /\ events' = Append(events, <<"end", leadIdx>>)
            /\ ToNextLead
  /\ UNCHANGED <<pipeline, leadCount, force, outputExists, leadResult, criticalFailure, stagesRun>>

\* The delay between two leads has elapsed
SleepDone ==
  /\ leadPc = "sleep"
  /\ ToNextLead
  /\ UNCHANGED <<pipeline, leadCount, force, outputExists, leadResult, criticalFailure, stagesRun, outputs, returned, progress, events>>

\* main's processLead: withRetries(collectPageSpeed) settles.  On a failure
\* the record is written with status failed and processLead returns failed
Stage1PageSpeed ==
  /\ pipeline = "main"
  /\ leadPc = "pagespeed"
  /\ \E outcome \in StageOutcomes :
       IF outcome = "ok"
       THEN /\ leadResult' = [leadResult EXCEPT !.pagespeed = TRUE]
            /\ Started("signals")
            /\ leadPc' = "signals"
            /\ UNCHANGED <<outputs, returned, progress, events, leadIdx>>
       ELSE \E r \in {[leadResult EXCEPT !.status = "failed", !.error = "PageSpeed failed"]}, written \in BOOLEAN :
              /\ leadResult' = r
              /\ UNCHANGED stagesRun
              /\ IF written
                 THEN /\ outputs' = [outputs EXCEPT ![leadIdx] = r]
                      /\ \E p \in {Update(progress, "failed")} : progress' = p /\ AfterReturn(p.current, "failed")
                 ELSE /\ leadPc' = "crashed"
                      /\ returned' = [returned EXCEPT ![leadIdx] = "threw"]
                      /\ events' = Append(events, <<"end", leadIdx>>)
                      /\ UNCHANGED <<outputs, progress, leadIdx>>
  /\ UNCHANGED <<pipeline, leadCount, force, outputExists, criticalFailure>>

\* main's processLead: withRetries(collectSignalsData) settles.  A failure
\* makes the status partial and the lead goes on to its contact details
Stage1Signals ==
  /\ pipeline = "main"
  /\ leadPc = "signals"
  /\ \E outcome \in StageOutcomes :
       leadResult' = IF outcome = "ok" THEN [leadResult EXCEPT !.signals = TRUE] ELSE [leadResult EXCEPT !.status = "partial", !.error = "Signals failed"]
  /\ Started("contacts")
  /\ leadPc' = "contacts"
  /\ UNCHANGED <<pipeline, leadCount, force, outputExists, leadIdx, criticalFailure, outputs, returned, progress, events>>

\* main's processLead: withRetries(collectContactData) settles
Stage1Contacts ==
  /\ pipeline = "main"
  /\ leadPc = "contacts"
  /\ \E outcome \in StageOutcomes :
       leadResult' = IF outcome = "ok" THEN [leadResult EXCEPT !.contacts = TRUE]
                     ELSE [leadResult EXCEPT !.error = IF @ = Null THEN "ContactDetails failed" ELSE @, !.status = IF @ = "ok" THEN "partial" ELSE @]
  /\ Started("crux")
  /\ leadPc' = "crux"
  /\ UNCHANGED <<pipeline, leadCount, force, outputExists, leadIdx, criticalFailure, outputs, returned, progress, events>>

\* main's processLead: collectCrux returns data or null
Stage1Crux ==
  /\ pipeline = "main"
  /\ leadPc = "crux"
  /\ \E outcome \in StageOutcomes : leadResult' = [leadResult EXCEPT !.crux = (outcome = "ok")]
  /\ Started("stack")
  /\ leadPc' = "stack"
  /\ UNCHANGED <<pipeline, leadCount, force, outputExists, leadIdx, criticalFailure, outputs, returned, progress, events>>

\* main's processLead: collectStack returns data or null, the record is
\* written and processLead returns its status.  A write that throws rejects
\* processLead and main with it
Stage1Stack ==
  /\ pipeline = "main"
  /\ leadPc = "stack"
  /\ \E outcome \in StageOutcomes, written \in BOOLEAN :
       \E r \in {[leadResult EXCEPT !.stack = (outcome = "ok")]} :
         /\ leadResult' = r
         /\ IF written
            THEN /\ outputs' = [outputs EXCEPT ![leadIdx] = r]
                 /\ \E p \in {Update(progress, r.status)} : progress' = p /\ AfterReturn(p.current, r.status)
            ELSE /\ leadPc' = "crashed"
                 /\ returned' = [returned EXCEPT ![leadIdx] = "threw"]
                 /\ events' = Append(events, <<"end", leadIdx>>)
                 /\ UNCHANGED <<outputs, progress, leadIdx>>
  /\ UNCHANGED <<pipeline, leadCount, force, outputExists, criticalFailure, stagesRun>>

NextLeads == LeadStart \/ PageSpeedStage \/ SignalsStage \/ CruxStage \/ StackStage \/ SaveLead \/ SleepDone \/ Stage1PageSpeed \/ Stage1Signals \/ Stage1Contacts \/ Stage1Crux \/ Stage1Stack

\* ------------------------------------------------------------------------
\* withRetries(fn, label, maxRetries) (utils/helpers.js; the copy of the
\* Stage 2 batch has MAX_RETRIES in the place of the parameter and its own
\* delay).  A call is cut at its awaits: the call of fn and the sleep.
\* ------------------------------------------------------------------------
\* the largest maxRetries the calls are made with
MaxRetries == 3

\* await sleep(3000)
RETRY_DELAY_MS == 3000

\* what a call of fn settles with: a value or an error
FnValues == {"value A", "value B"}

FnErrors == {"error A", "error B", "error C"}

VARIABLES
  maxRetries,   \* the parameter
  attempt,      \* the loop variable
  retryPc,      \* "idle", "start", "fn" (awaiting fn()), "sleep", "returned", "rejected"
  fnCalls,      \* what each call of fn settled with, in order
  lastError,    \* the variable lastError
  retryResult,  \* the value returned or the error thrown
  delays,       \* the delays waited, in order
  retryLog      \* the calls of fn and the sleeps, in order

retryVars == <<maxRetries, attempt, retryPc, fnCalls, lastError, retryResult, delays, retryLog>>

InitRetries ==
  /\ maxRetries \in 0..MaxRetries
  /\ attempt = 0
  /\ retryPc = "start"
  /\ fnCalls = <<>>
  /\ lastError = Null
  /\ retryResult = Null
  /\ delays = <<>>
  /\ retryLog = <<>>

RetriesIdle ==
  /\ maxRetries = 0
  /\ attempt = 0
  /\ retryPc = "idle"
  /\ fnCalls = <<>>
  /\ lastError = Null
  /\ retryResult = Null
  /\ delays = <<>>
  /\ retryLog = <<>>

\* LoopHead with one attempt more than maxRetries
LoopHead_oneMore(a, err) ==
  /\ attempt' = a
  /\ retryPc' = IF a <= maxRetries + 1 THEN "fn" ELSE "rejected"
  /\ retryResult' = IF a <= maxRetries + 1 THEN retryResult ELSE err

\* the head of the loop with attempt at a: fn is called, or the loop is over
\* and lastError is thrown
LoopHead(a, err) ==
  /\ attempt' = a
  /\ retryPc' = IF a <= maxRetries THEN "fn" ELSE "rejected"
  /\ retryResult' = IF a <= maxRetries THEN retryResult ELSE err

\* withRetries up to its first await
RetryStart ==
  /\ retryPc = "start"
  /\ LoopHead(1, lastError)
  /\ retryLog' = IF 1 <= maxRetries THEN Append(retryLog, "fn") ELSE retryLog
  /\ UNCHANGED <<maxRetries, fnCalls, lastError, delays>>

\* fn() resolves: its value is returned
FnResolves ==
  /\ retryPc = "fn"
  /\ \E v \in FnValues :
       /\ fnCalls' = Append(fnCalls, v)
       /\ retryResult' = v
  /\ retryPc' = "returned"
  /\ UNCHANGED <<maxRetries, attempt, lastError, delays, retryLog>>

\* fn() rejects: the error is kept; before the last attempt the sleep is
\* started, after it the loop ends and the error is thrown
FnRejects ==
  /\ retryPc = "fn"
  /\ \E e \in FnErrors :
       /\ fnCalls' = Append(fnCalls, e)
       /\ lastError' = e
       /\ IF attempt < maxRetries
          THEN /\ retryPc' = "sleep"
               /\ delays' = Append(delays, RETRY_DELAY_MS)
               /\ retryLog' = Append(retryLog, "sleep")
               /\ UNCHANGED <<attempt, retryResult>>
          ELSE /\ LoopHead(attempt + 1, e)
               /\ UNCHANGED <<delays, retryLog>>
  /\ UNCHANGED maxRetries

\* the sleep is over: the next attempt
RetrySleepDone ==
  /\ retryPc = "sleep"
  /\ LoopHead(attempt + 1, lastError)
  /\ retryLog' = Append(retryLog, "fn")
  /\ UNCHANGED <<maxRetries, fnCalls, lastError, delays>>

NextRetries == RetryStart \/ FnResolves \/ FnRejects \/ RetrySleepDone

\* ------------------------------------------------------------------------
\* Stage 2, the batch of lead files.  Two versions of processFile are in the
\* repository: the one of the batch analysis (analyzer "leadPack", part_006)
\* and the one that works on call reports (analyzer "callReport", part_005).
\* A file is cut at its awaits; what a step settles with, after the retries
\* of withRetries, is the environment's.
\* ------------------------------------------------------------------------
\* the most files of a batch
MaxFiles == 2

Analyzers == {"leadPack", "callReport"}

\* what a lead file holds: a lead, nothing readable, no item, an item of a
\* lead that failed in Stage 1, a lead without website_url
FileKinds == {"lead", "unreadable", "no item", "stage 1 failed", "no url"}

\* the awaited steps of processFile, in order
Steps(analyzer) ==
  IF analyzer = "leadPack" THEN <<"analyze", "scrape", "summarize", "build", "save">>
  ELSE <<"scrape", "analyze", "summarize", "build", "enrich", "save">>

\* the error thrown by the loading of a file, Null when it loads.  The call
\* report version reads website_url first, so a file without it has for it
\* no valid format, whatever its Stage 1 status
LoadError(analyzer, kind) ==
  IF kind = "unreadable" THEN "Unexpected token in JSON"
  ELSE IF analyzer = "leadPack"
       THEN IF kind = "no item" THEN "Invalid file format: missing data.item"
            ELSE IF kind = "no url" THEN "Missing lead.website_url"
            ELSE Null
       ELSE IF kind \in {"no item", "no url"} THEN "Neispravan format fajla"
            ELSE Null

\* variant of ReturnsValue: a value with ok false is taken for a failure
ReturnsValue_okOnly(value) == value.ok

\* return await fn() in withRetries: every resolved value is returned, an
\* object with ok false as well
ReturnsValue(value) == TRUE

\* variant of ErrorPack: the artifact without the message
ErrorPack_noMessage(message) == [message |-> Null, timestamp |-> TRUE]

\* the error artifact <basename>.error.json
ErrorPack(message) == [message |-> message, timestamp |-> TRUE]

NoErrorPack == [message |-> Null, timestamp |-> FALSE]

VARIABLES
  analyzer,      \* the version of processFile
  fileCount,     \* files.length
  fileForce,     \* options.force
  fileKinds,     \* per file: what it holds
  analyzed,      \* per file: isAlreadyAnalyzed(basename)
  fileIdx,       \* the file of the loop
  filePc,        \* "idle", "next", "step" (awaiting a step), "sleep" (the finally), "finished"
  stepIdx,       \* the step awaited
  pending,       \* the status processFile will return after the finally
  stepsRun,      \* per file: the steps started, in order
  scrapeCalls,   \* per file: the calls of scrapeSiteSnapshot
  scrapeResult,  \* per file: what scrapeSiteSnapshot last resolved with: "none", "ok", "not ok"
  summaries,     \* per file: "none", "generated", "placeholder"
  raised,        \* per file: the message of the error raised, or Null
  errorPacks,    \* per file: the error artifact written
  fileStatus     \* per file: the status processFile resolved with, or "none"

fileVars == <<analyzer, fileCount, fileForce, fileKinds, analyzed, fileIdx, filePc, stepIdx, pending, stepsRun, scrapeCalls, scrapeResult, summaries, raised, errorPacks, fileStatus>>

InitFiles ==
  /\ analyzer \in Analyzers
  /\ fileCount \in 1..MaxFiles
  /\ fileForce \in BOOLEAN
  /\ fileKinds \in [1..fileCount -> FileKinds]
  /\ analyzed \in [1..fileCount -> BOOLEAN]
  /\ fileIdx = 1
  /\ filePc = "next"
  /\ stepIdx = 0
  /\ pending = "none"
  /\ stepsRun = [f \in 1..fileCount |-> <<>>]
  /\ scrapeCalls = [f \in 1..fileCount |-> 0]
  /\ scrapeResult = [f \in 1..fileCount |-> "none"]
  /\ summaries = [f \in 1..fileCount |-> "none"]
  /\ raised = [f \in 1..fileCount |-> Null]
  /\ errorPacks = [f \in 1..fileCount |-> NoErrorPack]
  /\ fileStatus = [f \in 1..fileCount |-> "none"]

FilesIdle ==
  /\ analyzer = "idle"
  /\ fileCount = 0
  /\ fileForce = FALSE
  /\ fileKinds = <<>>
  /\ analyzed = <<>>
  /\ fileIdx = 0
  /\ filePc = "idle"
  /\ stepIdx = 0
  /\ pending = "none"
  /\ stepsRun = <<>>
  /\ scrapeCalls = <<>>
  /\ scrapeResult = <<>>
  /\ summaries = <<>>
  /\ raised = <<>>
  /\ errorPacks = <<>>
  /\ fileStatus = <<>>

\* the catch of processFile: the error artifact is written and the status
\* is failed; the finally sleeps before the return
Caught(message) ==
  /\ raised' = [raised EXCEPT ![fileIdx] = message]
  /\ errorPacks' = [errorPacks EXCEPT ![fileIdx] = ErrorPack(message)]
  /\ pending' = "failed"
  /\ filePc' = "sleep"

\* the step k of the file in hand is started
StartStep(k) ==
  /\ stepIdx' = k
  /\ stepsRun' = [stepsRun EXCEPT ![fileIdx] = Append(@, Steps(analyzer)[k])]
  /\ filePc' = "step"

\* The loop takes a file and processFile runs up to its first await: a file
\* already analyzed is skipped unless forced; the file is loaded and checked;
\* an error goes to the catch, a lead that failed in Stage 1 is skipped
\* through the finally, any other lead starts its first step
FileStart ==
  /\ filePc = "next"
  /\ fileIdx <= fileCount
  /\ IF ~fileForce /\ analyzed[fileIdx]
     THEN /\ fileStatus' = [fileStatus EXCEPT ![fileIdx] = "skipped"]
          /\ fileIdx' = fileIdx + 1
          /\ filePc' = IF fileIdx + 1 > fileCount THEN "finished" ELSE "next"
          /\ UNCHANGED <<stepIdx, pending, stepsRun, raised, errorPacks>>
     ELSE /\ UNCHANGED <<fileIdx, fileStatus>>
          /\ \E e \in {LoadError(analyzer, fileKinds[fileIdx])} :
               IF e # Null
               THEN Caught(e) /\ UNCHANGED <<stepIdx, stepsRun>>
               ELSE IF fileKinds[fileIdx] = "stage 1 failed"
                    THEN pending' = "skipped" /\ filePc' = "sleep" /\ UNCHANGED <<stepIdx, stepsRun, raised, errorPacks>>
                    ELSE StartStep(1) /\ UNCHANGED <<pending, raised, errorPacks>>
  /\ UNCHANGED <<analyzer, fileCount, fileForce, fileKinds, analyzed, scrapeCalls, scrapeResult, summaries>>

\* the retries of the Stage 2 steps, CONFIG.MAX_RETRIES (the default of
\* withRetries)
FILE_MAX_RETRIES == 2

\* withRetries(() => scrapeSiteSnapshot(url)): the call resolves, with ok
\* true or false (it never rejects), and its value is returned to
\* processFile, which goes on to its next step.  Only a rejected call is
\* called again, and after the last attempt its error is thrown
ScrapeSettles ==
  /\ filePc = "step"
  /\ Steps(analyzer)[stepIdx] = "scrape"
  /\ scrapeCalls' = [scrapeCalls EXCEPT ![fileIdx] = @ + 1]
  /\ \E ok \in BOOLEAN :
       /\ scrapeResult' = [scrapeResult EXCEPT ![fileIdx] = IF ok THEN "ok" ELSE "not ok"]
       /\ IF ReturnsValue([ok |-> ok])
          THEN StartStep(stepIdx + 1) /\ UNCHANGED <<pending, raised, errorPacks>>
          ELSE IF scrapeCalls[fileIdx] + 1 < FILE_MAX_RETRIES
               THEN UNCHANGED <<stepIdx, stepsRun, filePc, pending, raised, errorPacks>>
               ELSE Caught("scrape failed") /\ UNCHANGED <<stepIdx, stepsRun>>
  /\ UNCHANGED <<analyzer, fileCount, fileForce, fileKinds, analyzed, fileIdx, summaries, fileStatus>>

\* the step after step k: the call report version does not call
\* summarizeSite when the scrape was not ok and uses a placeholder summary
SkipsSummary(k) == analyzer = "callReport" /\ scrapeResult[fileIdx] = "not ok" /\ Steps(analyzer)[k + 1] = "summarize"

\* Another step settles.  Resolved: the next step is started, and after the
\* save the status is success.  Rejected after its retries: the catch
StepSettles ==
  /\ filePc = "step"
  /\ Steps(analyzer)[stepIdx] # "scrape"
  /\ \E resolved \in BOOLEAN :
       IF ~resolved
       THEN Caught(Steps(analyzer)[stepIdx] \o " failed") /\ UNCHANGED <<stepIdx, stepsRun, summaries>>
       ELSE /\ UNCHANGED <<raised, errorPacks>>
            /\ IF stepIdx = Len(Steps(analyzer))
               THEN pending' = "success" /\ filePc' = "sleep" /\ UNCHANGED <<stepIdx, stepsRun, summaries>>
               ELSE /\ pending' = pending
                    /\ IF SkipsSummary(stepIdx)
                       THEN StartStep(stepIdx + 2) /\ summaries' = [summaries EXCEPT ![fileIdx] = "placeholder"]
                       ELSE StartStep(stepIdx + 1) /\ summaries' = [summaries EXCEPT ![fileIdx] = IF Steps(analyzer)[stepIdx] = "summarize" THEN "generated" ELSE @]
  /\ UNCHANGED <<analyzer, fileCount, fileForce, fileKinds, analyzed, fileIdx, scrapeCalls, scrapeResult, fileStatus>>

\* The sleep of the finally is over: processFile resolves with its status
\* and the loop of main goes to the next file
FileSleepDone ==
  /\ filePc = "sleep"
  /\ fileStatus' = [fileStatus EXCEPT ![fileIdx] = pending]
  /\ pending' = "none"
  /\ fileIdx' = fileIdx + 1
  /\ filePc' = IF fileIdx + 1 > fileCount THEN "finished" ELSE "next"
  /\ UNCHANGED <<analyzer, fileCount, fileForce, fileKinds, analyzed, stepIdx, stepsRun, scrapeCalls, scrapeResult, summaries, raised, errorPacks>>

NextFiles == FileStart \/ ScrapeSettles \/ StepSettles \/ FileSleepDone

\* ------------------------------------------------------------------------
\* The specifications: each runs one part of the program, the others idle
\* ------------------------------------------------------------------------
vars == <<collectVars, rankVars, stackVars, contactVars, snapVars, fetchVars, vendorVars, leadVars, retryVars, fileVars>>

Init == InitCollect /\ RankIdle /\ StackIdle /\ ContactsIdle /\ SnapshotIdle /\ FetchIdle /\ VendorsIdle /\ LeadsIdle /\ RetriesIdle /\ FilesIdle

Next == NextCollect /\ UNCHANGED <<rankVars, stackVars, contactVars, snapVars, fetchVars, vendorVars, leadVars, retryVars, fileVars>>

Spec == Init /\ [][Next]_vars

InitRanker == CollectIdle /\ InitRank /\ StackIdle /\ ContactsIdle /\ SnapshotIdle /\ FetchIdle /\ VendorsIdle /\ LeadsIdle /\ RetriesIdle /\ FilesIdle

NextRanker == (ApplyPickImportantLinks \/ ApplySelectImportantPages) /\ UNCHANGED <<collectVars, stackVars, contactVars, snapVars, fetchVars, vendorVars, leadVars, retryVars, fileVars>>

SpecRanker == InitRanker /\ [][NextRanker]_vars

InitStackSpec == CollectIdle /\ RankIdle /\ InitStack /\ ContactsIdle /\ SnapshotIdle /\ FetchIdle /\ VendorsIdle /\ LeadsIdle /\ RetriesIdle /\ FilesIdle

NextStackSpec == NextStack /\ UNCHANGED <<collectVars, rankVars, contactVars, snapVars, fetchVars, vendorVars, leadVars, retryVars, fileVars>>

SpecStack == InitStackSpec /\ [][NextStackSpec]_vars

InitContactsSpec == CollectIdle /\ RankIdle /\ StackIdle /\ InitContacts /\ SnapshotIdle /\ FetchIdle /\ VendorsIdle /\ LeadsIdle /\ RetriesIdle /\ FilesIdle

NextContactsSpec == NextContacts /\ UNCHANGED <<collectVars, rankVars, stackVars, snapVars, fetchVars, vendorVars, leadVars, retryVars, fileVars>>

SpecContacts == InitContactsSpec /\ [][NextContactsSpec]_vars

InitSnapshotSpec == CollectIdle /\ RankIdle /\ StackIdle /\ ContactsIdle /\ InitSnapshot /\ FetchIdle /\ VendorsIdle /\ LeadsIdle /\ RetriesIdle /\ FilesIdle

NextSnapshotSpec == NextSnapshot /\ UNCHANGED <<collectVars, rankVars, stackVars, contactVars, fetchVars, vendorVars, leadVars, retryVars, fileVars>>

SpecSnapshot == InitSnapshotSpec /\ [][NextSnapshotSpec]_vars

InitFetchSpec == CollectIdle /\ RankIdle /\ StackIdle /\ ContactsIdle /\ SnapshotIdle /\ InitFetch /\ VendorsIdle /\ LeadsIdle /\ RetriesIdle /\ FilesIdle

NextFetchSpec == NextFetch /\ UNCHANGED <<collectVars, rankVars, stackVars, contactVars, snapVars, vendorVars, leadVars, retryVars, fileVars>>

SpecFetch == InitFetchSpec /\ [][NextFetchSpec]_vars

\* The timer of setTimeout fires when its time has come, and a call that has
\* started goes on to its fetch; nothing makes the server answer
SpecFetchLive == SpecFetch /\ WF_vars(FetchBegin /\ UNCHANGED <<collectVars, rankVars, stackVars, contactVars, snapVars, vendorVars, leadVars, retryVars, fileVars>>) /\ WF_vars(TimerFires /\ UNCHANGED <<collectVars, rankVars, stackVars, contactVars, snapVars, vendorVars, leadVars, retryVars, fileVars>>)

InitVendorsSpec == CollectIdle /\ RankIdle /\ StackIdle /\ ContactsIdle /\ SnapshotIdle /\ FetchIdle /\ InitVendors /\ LeadsIdle /\ RetriesIdle /\ FilesIdle

NextVendorsSpec == NextVendors /\ UNCHANGED <<collectVars, rankVars, stackVars, contactVars, snapVars, fetchVars, leadVars, retryVars, fileVars>>

SpecVendors == InitVendorsSpec /\ [][NextVendorsSpec]_vars

InitLeadsSpec == CollectIdle /\ RankIdle /\ StackIdle /\ ContactsIdle /\ SnapshotIdle /\ FetchIdle /\ VendorsIdle /\ InitLeads /\ RetriesIdle /\ FilesIdle

NextLeadsSpec == NextLeads /\ UNCHANGED <<collectVars, rankVars, stackVars, contactVars, snapVars, fetchVars, vendorVars, retryVars, fileVars>>

SpecLeads == InitLeadsSpec /\ [][NextLeadsSpec]_vars

InitRetriesSpec == CollectIdle /\ RankIdle /\ StackIdle /\ ContactsIdle /\ SnapshotIdle /\ FetchIdle /\ VendorsIdle /\ LeadsIdle /\ InitRetries /\ FilesIdle

NextRetriesSpec == NextRetries /\ UNCHANGED <<collectVars, rankVars, stackVars, contactVars, snapVars, fetchVars, vendorVars, leadVars, fileVars>>

SpecRetries == InitRetriesSpec /\ [][NextRetriesSpec]_vars

\* Every call of fn settles and every sleep ends
SpecRetriesLive == SpecRetries /\ WF_vars(NextRetries /\ UNCHANGED <<collectVars, rankVars, stackVars, contactVars, snapVars, fetchVars, vendorVars, leadVars, fileVars>>)

InitFilesSpec == CollectIdle /\ RankIdle /\ StackIdle /\ ContactsIdle /\ SnapshotIdle /\ FetchIdle /\ VendorsIdle /\ LeadsIdle /\ RetriesIdle /\ InitFiles

NextFilesSpec == NextFiles /\ UNCHANGED <<collectVars, rankVars, stackVars, contactVars, snapVars, fetchVars, vendorVars, leadVars, retryVars>>

SpecFiles == InitFilesSpec /\ [][NextFilesSpec]_vars

\* ------------------------------------------------------------------------
\* Properties of the page-merge loop
\* ------------------------------------------------------------------------
\* C1: in the page-merge loop, every tracking flag of the site record that is
\* true before a page is merged is still true after it (flags only go from
\* false to true), whatever pages are merged and in whatever order.
C1_TrackingFlagsMonotone == [][pc = "merge" => \A key \in DOMAIN merged.tracking : merged.tracking[key] => merged'.tracking[key]]_vars

\* C1, its case: a page without GA4 has been merged after a page with GA4 and
\* the record's flag is still set.
C1_FlagSurvivesLaterPage == Len(mergeLog) >= 2 /\ mergeLog[1].signals.tracking.ga4 /\ ~mergeLog[2].signals.tracking.ga4 /\ merged.tracking.ga4

\* booking confidence of the i-th merged page
BookingConfidenceAt(i) == mergeLog[i].signals.booking.confidence

MaxBookingConfidence == CHOOSE c \in {BookingConfidenceAt(i) : i \in 1..Len(mergeLog)} : \A i \in 1..Len(mergeLog) : BookingConfidenceAt(i) <= c

\* the first page in merge order that attains the maximum
FirstMaxBookingPage == CHOOSE i \in 1..Len(mergeLog) : BookingConfidenceAt(i) = MaxBookingConfidence /\ \A j \in 1..(i - 1) : BookingConfidenceAt(j) < MaxBookingConfidence

BookingOfFirstMax == LET p == mergeLog[FirstMaxBookingPage] IN [type |-> p.signals.booking.type, evidence |-> p.signals.booking.evidence, confidence |-> p.signals.booking.confidence, evidence_url |-> p.url]

\* a page has just been merged
PageMerged == pc = "merge" /\ Len(mergeLog') = Len(mergeLog) + 1

\* C2 as stated: after every page merge the record's booking is that of the
\* first page in merge order that attains the maximum confidence of the pages
\* merged so far, and a page whose confidence is lower than or equal to the
\* current one leaves booking unchanged.
C2_BookingOfFirstMaximum == [][PageMerged => /\ merged'.booking = BookingOfFirstMax'
                                              /\ (mergeLog'[Len(mergeLog')].signals.booking.confidence <= merged.booking.confidence => merged'.booking = merged.booking)]_vars

\* C2 amended: the same when the maximum confidence is above 0; while no page
\* merged so far has a confidence above 0 the booking keeps its initial state
\* (type, evidence and evidence_url null, confidence 0).
C2_BookingOfFirstPositiveMaximum == [][PageMerged => /\ merged'.booking = (IF MaxBookingConfidence' > 0 THEN BookingOfFirstMax' ELSE createEmptySignalStructure.booking)
                                                      /\ (mergeLog'[Len(mergeLog')].signals.booking.confidence <= merged.booking.confidence => merged'.booking = merged.booking)]_vars

\* C2, its case: two pages of equal positive confidence and different booking
\* type have been merged, and the record shows the first one.
C2_TieKeepsFirstPage == Len(mergeLog) >= 2 /\ BookingConfidenceAt(1) > 0 /\ BookingConfidenceAt(1) = BookingConfidenceAt(2) /\ mergeLog[1].signals.booking.type # mergeLog[2].signals.booking.type /\ mergeLog[1].url # mergeLog[2].url /\ merged.booking.evidence_url = mergeLog[1].url /\ merged.booking.type = mergeLog[1].signals.booking.type

\* pages, in merge order, whose detection reports a chatbot
ChatbotPages == {i \in 1..Len(mergeLog) : mergeLog[i].signals.chatbot.has_chatbot}

FirstChatbotPage == CHOOSE i \in ChatbotPages : \A j \in ChatbotPages : i <= j

ChatbotExpected == IF ChatbotPages = {} THEN [has_chatbot |-> FALSE, vendor |-> Null, confidence |-> 0, evidence_url |-> Null]
                   ELSE LET p == mergeLog[FirstChatbotPage] IN [has_chatbot |-> TRUE, vendor |-> p.signals.chatbot.vendor, confidence |-> p.signals.chatbot.confidence, evidence_url |-> p.url]

\* C3: after every page merge the record's chatbot is that of the first page
\* in merge order that detects one, with that page's URL as evidence_url, and
\* once set no later page changes it; while no page detects a chatbot the
\* record keeps has_chatbot false, vendor null, confidence 0, evidence_url null.
C3_FirstChatbotWins == [][PageMerged => /\ merged'.chatbot = ChatbotExpected'
                                         /\ (merged.chatbot.has_chatbot => merged'.chatbot = merged.chatbot)]_vars

\* C3, its case: two pages with chatbots of different vendors have been
\* merged and the record shows the first one.
C3_SecondVendorIgnored == Len(mergeLog) >= 2 /\ mergeLog[1].signals.chatbot.has_chatbot /\ mergeLog[2].signals.chatbot.has_chatbot /\ mergeLog[1].signals.chatbot.vendor # mergeLog[2].signals.chatbot.vendor /\ mergeLog[1].url # mergeLog[2].url /\ merged.chatbot.vendor = mergeLog[1].signals.chatbot.vendor /\ merged.chatbot.evidence_url = mergeLog[1].url

\* C4 as stated: every phone and every email in the record's contact lists
\* before a page is merged is still in them after the merge.
C4_ContactEntriesKept == [][PageMerged => /\ SeqToSet(merged.contact.phones) \subseteq SeqToSet(merged'.contact.phones)
                                           /\ SeqToSet(merged.contact.emails) \subseteq SeqToSet(merged'.contact.emails)]_vars

\* C4 amended: every email in the list before a merge is still in it after
\* the merge, and every phone in the list before a merge is still represented
\* after it: the list holds a phone whose canonical digit key equals the key
\* of the earlier phone or ends with it (a number may be replaced by a longer
\* form of itself).
C4_ContactNumbersKept == [][PageMerged => /\ \A ph \in SeqToSet(merged.contact.phones) : \E q \in SeqToSet(merged'.contact.phones) : EndsWith(canonKey(q), canonKey(ph))
                                           /\ SeqToSet(merged.contact.emails) \subseteq SeqToSet(merged'.contact.emails)]_vars

\* C4, its case: a merge has dropped a phone of the list in favour of a longer
\* form of the same number, and an email of an earlier page is still listed
\* next to one of a later page.
C4_ShortPhoneReplaced == /\ Len(mergeLog) >= 2
                         /\ \E ph \in SeqToSet(mergeLog[1].contacts.phones) : ph \notin SeqToSet(merged.contact.phones) /\ \E q \in SeqToSet(merged.contact.phones) : q # ph /\ EndsWith(canonKey(q), canonKey(ph))
                         /\ \E e1 \in SeqToSet(mergeLog[1].contacts.emails), e2 \in SeqToSet(mergeLog[2].contacts.emails) : e1 # e2 /\ {e1, e2} \subseteq SeqToSet(merged.contact.emails)

\* ------------------------------------------------------------------------
\* Properties of the fetches of one run
\* ------------------------------------------------------------------------
\* the homepage fetch has completed, and how
HomepageFailed == Len(fetchLog) >= 2 /\ fetchLog[2].ev = "fail"

HomepageFetched == Len(fetchLog) >= 2 /\ fetchLog[2].ev = "ok"

\* C5: when the homepage fetch fails collectSignals is rejected with the error
\* that fetch threw, no further fetch is made and no record is returned; a
\* returned record always has a non-empty crawled_pages whose first element
\* is the homepage URL.
C5_HomepageFailureRejects == /\ HomepageFailed => pc = "rejected" /\ error = fetchLog[2].err /\ error \in FetchErrors /\ Len(fetchLog) = 2 /\ fetchLog[2].url = websiteUrl /\ result = Null /\ pages = <<>> /\ mergeLog = <<>>
                             /\ pc = "done" => HomepageFetched /\ Len(result.crawled_pages) >= 1 /\ result.crawled_pages[1] = websiteUrl

\* C5, its case: the homepage answered with a non-2xx status and the run ended
\* rejected with that error.
C5_HomepageNotFound == HomepageFailed /\ pc = "rejected" /\ error = "Fetch failed 404 Not Found"

\* the urls of the events of q of the given kind, in order
RECURSIVE UrlsOfEvents(_, _)
UrlsOfEvents(q, kind) == IF q = <<>> THEN <<>> ELSE (IF Head(q).ev = kind THEN <<Head(q).url>> ELSE <<>>) \o UrlsOfEvents(Tail(q), kind)

\* the fetch events of the ranked links
SecondaryEvents == SubSeq(fetchLog, 3, Len(fetchLog))

\* the record processAndMergeSignals builds from the given pages in order
RECURSIVE MergeAll(_, _, _)
MergeAll(m, ps, homepageUrl) == IF ps = <<>> THEN m ELSE MergeAll(MergeOnePage(m, Head(ps), homepageUrl, SignalsOf(Head(ps).html), ContactsOf(Head(ps).html)), Tail(ps), homepageUrl)

\* C6: a failed fetch of a ranked link never rejects collectSignals with the
\* fetch error; the failed page gets no entry in the pages array nor in
\* crawled_pages (they hold the homepage and the links fetched successfully,
\* in order), every ranked link is still requested before merging starts, and
\* the record returned is the one built from the homepage and the pages
\* fetched successfully.
C6_SecondaryFailureSkipped == /\ HomepageFetched => error \notin FetchErrors
                              /\ HomepageFetched => [i \in 1..Len(pages) |-> pages[i].url] = <<websiteUrl>> \o UrlsOfEvents(SecondaryEvents, "ok")
                              /\ pc \in {"merge", "done"} => /\ UrlsOfEvents(SecondaryEvents, "start") = links
                                                             /\ merged.crawled_pages = <<websiteUrl>> \o UrlsOfEvents(SecondaryEvents, "ok")
                              /\ pc = "done" => result = MergeAll([createEmptySignalStructure EXCEPT !.crawled_pages = <<websiteUrl>> \o UrlsOfEvents(SecondaryEvents, "ok")], pages, websiteUrl)

\* C6, its case: the first ranked link failed, the second was fetched, and the
\* record was returned with the homepage and the second link only.
C6_RecordDespiteFailedLink == pc = "done" /\ Len(links) = 2 /\ Len(fetchLog) = 6 /\ fetchLog[4].ev = "fail" /\ fetchLog[6].ev = "ok" /\ result.crawled_pages = <<websiteUrl, links[2]>>

\* C7: the first fetch is the homepage's and no ranked link is requested
\* before it has completed; fetches are made one at a time (each request
\* completes before the next is issued), the links are requested in the order
\* pickImportantLinks returned them for the homepage's markup, the first page merged is the homepage
\* and the ranked pages are merged in the order they were fetched.
C7_HomepageFirstThenRankedOrder == /\ Cardinality(inflight) <= 1
                                   /\ \A i \in 1..Len(fetchLog) : IF i % 2 = 1 THEN fetchLog[i].ev = "start" ELSE fetchLog[i].ev \in {"ok", "fail"} /\ fetchLog[i].url = fetchLog[i - 1].url
                                   /\ Len(fetchLog) >= 1 => fetchLog[1].url = websiteUrl
                                   /\ Len(fetchLog) >= 3 => HomepageFetched
                                   /\ (HomepageFetched /\ Len(fetchLog) = 2) => links = pickImportantLinks([i \in 1..Len(pages[1].html.anchors) |-> pages[1].html.anchors[i].href], websiteUrl, 2)
                                   /\ LET started == UrlsOfEvents(SecondaryEvents, "start") IN Len(started) <= Len(links) /\ started = SubSeq(links, 1, Len(started))
                                   /\ mergeLog # <<>> => mergeLog[1].url = websiteUrl /\ mergeLog[1].signals = SignalsOf(pages[1].html)
                                   /\ Len(mergeLog) <= Len(pages) /\ \A i \in 1..Len(mergeLog) : mergeLog[i].url = pages[i].url
                                   /\ mergeLog # <<>> => inflight = {} /\ UrlsOfEvents(SecondaryEvents, "start") = links

\* C7, its case: two ranked links were fetched after the homepage and all
\* three pages were merged in that order.
C7_ThreePagesInOrder == Len(mergeLog) = 3 /\ Len(links) = 2 /\ links[1] # links[2] /\ UrlsOfEvents(fetchLog, "ok") = <<websiteUrl, links[1], links[2]>> /\ [i \in 1..3 |-> mergeLog[i].url] = <<websiteUrl, links[1], links[2]>>

\* C8 as stated: after every page merge the record's seo is the SEO metadata
\* detected from the markup fetched as the first page of the run, and merging
\* a page after the homepage leaves seo unchanged; the returned record
\* carries that metadata.
C8_SeoIsHomepageSeo == [][/\ PageMerged => merged'.seo = homeSeo
                          /\ (PageMerged /\ mergeLog # <<>>) => merged'.seo = merged.seo
                          /\ pc' = "done" => result'.seo = homeSeo]_vars

\* C9 as stated: in the returned record, every tool that detectTracking
\* reported as present on a merged page is a key of the tracking map, with
\* the value true.
C9_DetectedToolsRecorded == pc = "done" => \A i \in 1..Len(mergeLog) : \A tool \in DOMAIN mergeLog[i].signals.tracking : mergeLog[i].signals.tracking[tool] => tool \in DOMAIN result.tracking /\ result.tracking[tool]

\* ------------------------------------------------------------------------
\* Properties of the rankers
\* ------------------------------------------------------------------------
SameHostAbsolute(url, base) == IsAbsoluteUrl(url) /\ HostOf(base) # Null /\ HostOf(url) = HostOf(base)

\* C10: every URL pickImportantLinks returns is an absolute URL whose host is
\* the host of baseUrl, and so is every URL selectImportantPages returns,
\* whatever mix of relative, absolute, cross-domain and unparseable hrefs the
\* page holds; no href makes either call throw (pickImportantLinks throws
\* only when baseUrl itself does not parse).
C10_RankedUrlsSameHost == /\ pickStatus = "returned" => \A i \in 1..Len(picked) : SameHostAbsolute(picked[i], baseUrl)
                          /\ selectStatus = "returned" => \A i \in 1..Len(selected) : SameHostAbsolute(selected[i], baseUrl)
                          /\ pickStatus = "threw" => HostOf(baseUrl) = Null
                          /\ pickStatus \in {"returned", "threw"} => (pickStatus = "returned" <=> HostOf(baseUrl) # Null)

\* C10, its case: the page holds an unparseable href, a cross-domain href with
\* a keyword and a relative href, and both rankers return the relative one
\* resolved against baseUrl, and nothing else.
C10_MixedHrefsOneKept == /\ hrefs = <<"http://[bad", "https://other.com/contact", "/contact">>
                         /\ baseUrl = "https://example.com"
                         /\ pickStatus = "returned" /\ picked = <<"https://example.com/contact">>
                         /\ selectStatus = "returned" /\ selected = <<"https://example.com/contact">>

\* the deduplicated same-host links of the page with a positive relevance
\* score, each with its score, in document order
PositiveLinks == SelectSeq(WithScore(normalizeLinks(SelectSeq(hrefs, LAMBDA h : h # ""), baseUrl)), LAMBDA e : e.score > 0)

\* how many entries of q come before entry k in the ranking: those of higher
\* score, and those of equal score seen earlier
RankBefore(q, k) == Cardinality({j \in 1..Len(q) : q[j].score > q[k].score \/ (q[j].score = q[k].score /\ j < k)})

\* C11: pickImportantLinks returns the first maxLinks entries of the
\* deduplicated same-host links of positive score ranked by descending score,
\* links of equal score in document order: at most maxLinks entries, all of
\* positive score, in non-increasing score order.
C11_TopLinksByScoreStable ==
  pickStatus = "returned" =>
    \E cand \in {PositiveLinks} :
      /\ Len(picked) = (IF Len(cand) < maxLinks THEN Len(cand) ELSE maxLinks)
      /\ \A i \in 1..Len(picked) : \E k \in 1..Len(cand) : picked[i] = cand[k].url /\ RankBefore(cand, k) = i - 1
      /\ \A i \in 1..Len(picked) : scoreLinkRelevance(picked[i]) > 0
      /\ \A i \in 1..(Len(picked) - 1) : scoreLinkRelevance(picked[i]) >= scoreLinkRelevance(picked[i + 1])

\* C11, its case: three same-host links, the first of lower score than the two
\* that follow, which tie; the two of equal score are returned in document order.
C11_TieInDocumentOrder == /\ hrefs = <<"https://EXAMPLE.com/Team", "appointment", "/contact">>
                          /\ baseUrl = "https://example.com"
                          /\ maxLinks = 2
                          /\ pickStatus = "returned"
                          /\ picked = <<"https://example.com/appointment", "https://example.com/contact">>

\* ------------------------------------------------------------------------
\* Properties of one run of collectSignals, continued
\* ------------------------------------------------------------------------
\* the sites and homepages on which some same-host link has a positive
\* relevance score
HomesWithRankedLink == { p \in WebsiteUrls \X HomeDoms : SelectSeq(WithScore(normalizeLinks(SelectSeq([i \in 1..Len(p[2].anchors) |-> p[2].anchors[i].href], LAMBDA h : h # ""), p[1])), LAMBDA e : e.score > 0) # <<>> }

NoRankedHomeLink == HomepageFetched /\ <<websiteUrl, pages[1].html>> \notin HomesWithRankedLink

\* C12 as stated: when no same-host link of the homepage has a positive
\* relevance score, collectSignals makes exactly one fetch, that of the
\* homepage, and returns a record whose crawled_pages has length 1 (it does
\* not reject).
C12_NoRankedLinkOneFetchRecord ==
  NoRankedHomeLink =>
    /\ Len(fetchLog) = 2
    /\ fetchLog[1].url = websiteUrl
    /\ pc # "rejected"
    /\ pc = "done" => Len(result.crawled_pages) = 1

\* ------------------------------------------------------------------------
\* Properties of the technology deduplication
\* ------------------------------------------------------------------------
\* C13: the list deduplicateTechnologies returns (detectStack's technologies
\* included) holds no two entries of the same (name, category); every entry is
\* one of the input hits and carries the highest confidence of the input hits
\* of its (name, category); every (name, category) of the input occurs; and
\* the entries are in non-increasing confidence order.
C13_OnePerTechnologyMaxConfidence ==
  stackStatus \in {"returned", "twice"} =>
    /\ \A i, j \in 1..Len(technologies) : (technologies[i].name = technologies[j].name /\ technologies[i].category = technologies[j].category) => i = j
    /\ \A i \in 1..Len(technologies) : \E k \in 1..Len(hits) : hits[k] = technologies[i]
    /\ \A k \in 1..Len(hits) : \E i \in 1..Len(technologies) : technologies[i].name = hits[k].name /\ technologies[i].category = hits[k].category /\ technologies[i].confidence >= hits[k].confidence
    /\ \A i \in 1..(Len(technologies) - 1) : technologies[i].confidence >= technologies[i + 1].confidence

\* C13, its case: a page answered with both a cloudflare server header and a
\* cf-ray header gives two Cloudflare hits, of which detectStack keeps the more
\* confident one.
C13_TwoCloudflareHitsOneKept ==
  /\ stackMode = "page"
  /\ stackStatus = "returned"
  /\ Len(hits) = 2 /\ hits[1].confidence = 90 /\ hits[2].confidence = 95 /\ hits[1].name = "Cloudflare" /\ hits[2].name = "Cloudflare"
  /\ technologies = <<createTech("Cloudflare", "CDN", 95, "cf-* headers")>>

\* C14 as stated: deduplicateTechnologies applied to its own output returns
\* that output, and applied to any reordering of the same hits (hits that tie
\* on confidence included) it returns the same list: same entries, same
\* evidence, same order.
C14_IdempotentOrderIndependent ==
  /\ stackStatus = "twice" => again = technologies
  /\ stackStatus \in {"returned", "twice"} => \A p \in Permutations(1..Len(hits)) : deduplicateTechnologies([i \in 1..Len(hits) |-> hits[p[i]]]) = technologies

\* ------------------------------------------------------------------------
\* Properties of the contact extractor
\* ------------------------------------------------------------------------
\* a plus followed by at least seven digits and nothing else
IsPlusDigits(s) == Len(s) >= 8 /\ Char(s, 1) = "+" /\ \A i \in 2..Len(s) : IsDigit(Char(s, i))

\* C15: normalizePhone applied to a value it returned gives that value again;
\* in particular a plus followed by (at least seven) digits is returned
\* unchanged.
C15_NormalizePhoneIdempotent ==
  /\ contactStatus = "again" => renormalized = normalized
  /\ (contactMode = "normalize" /\ contactStatus \in {"returned", "again"} /\ rawPhone # Null /\ IsPlusDigits(rawPhone)) => normalized = rawPhone

\* C15, its case: a formatted ten-digit number was normalized to its +1 form
\* and that form normalized again.
C15_FormattedNumberTwice == contactStatus = "again" /\ rawPhone = " (404) 762-9615" /\ normalized = "+14047629615" /\ renormalized = "+14047629615"

\* the forms of one North-American number: with or without the country digit,
\* with or without a leading plus
SameNumberForms == {"4047629615", "14047629615", "+4047629615", "+14047629615"}

OneNumberInput == contactMode = "dedupe" /\ contactStatus = "returned" /\ phoneList # <<>> /\ \A i \in 1..Len(phoneList) : phoneList[i] \in SameNumberForms

\* the first entry of q with a leading plus, the first entry when there is none
FirstPlusForm(q) == IF \E i \in 1..Len(q) : StartsWith(q[i], "+") THEN q[CHOOSE i \in 1..Len(q) : StartsWith(q[i], "+") /\ \A j \in 1..(i - 1) : ~StartsWith(q[j], "+")] ELSE q[1]

FourFormsExtracted == (contactMode = "extract" /\ contactStatus \in {"returned", "threw"} /\ page = PhoneFormsDom) => (contactStatus = "returned" /\ contacts.phones = <<"+14047629615">>)

\* C16: of any list, in any order and multiplicity, of forms of one
\* North-American number deduplicatePhones returns exactly one entry; that
\* entry has a leading plus whenever a form with a leading plus occurs in the
\* list (it is the first such form, and the first form when none has a plus),
\* so it is +14047629615 whenever that is the plus form of the list;
\* extractContacts of the four raw forms yields the single phone +14047629615.
C16_OneEntryPlusFormPreferred ==
  /\ OneNumberInput =>
       /\ Len(dedupedPhones) = 1
       /\ (\E i \in 1..Len(phoneList) : StartsWith(phoneList[i], "+")) => StartsWith(dedupedPhones[1], "+")
       /\ dedupedPhones[1] = FirstPlusForm(phoneList)
       /\ ((\E i \in 1..Len(phoneList) : phoneList[i] = "+14047629615") /\ (\A i \in 1..Len(phoneList) : phoneList[i] # "+4047629615")) => dedupedPhones = <<"+14047629615">>
  /\ FourFormsExtracted

\* C16, its case: the E.164 form stands between two undecorated forms of the
\* number and is the entry returned.
C16_PlusFormAmongBareForms == contactMode = "dedupe" /\ contactStatus = "returned" /\ phoneList = <<"4047629615", "+14047629615", "14047629615">> /\ dedupedPhones = <<"+14047629615">>

\* some entry of q has exactly the digits d
HasDigits(q, d) == \E k \in 1..Len(q) : DigitsOf(q[k]) = d

\* d is a proper suffix of the canonical key of some entry of q
SuffixOfLonger(q, d) == \E k \in 1..Len(q) : Len(canonKey(q[k])) > Len(d) /\ EndsWith(canonKey(q[k]), d)

\* C17: in the list deduplicatePhones returns, a 7-digit number of the input
\* is absent whenever its digits end the canonical key of a longer number
\* that is retained, and present whenever they end the canonical key of no
\* longer number of the input; a longer number of the input that it ends is
\* always among the retained ones.
C17_ShortSuffixDropped ==
  (contactMode = "dedupe" /\ contactStatus = "returned") =>
    \A i \in 1..Len(phoneList) : \E d \in {DigitsOf(phoneList[i])} :
      Len(d) = 7 =>
        /\ SuffixOfLonger(dedupedPhones, d) => ~HasDigits(dedupedPhones, d)
        /\ ~SuffixOfLonger(phoneList, d) => HasDigits(dedupedPhones, d)
        /\ SuffixOfLonger(phoneList, d) <=> SuffixOfLonger(dedupedPhones, d)

\* C17, its case: of two 7-digit numbers one ends a longer number of the list
\* and is dropped, the other ends none and is kept.
C17_OneShortDroppedOneKept == contactMode = "dedupe" /\ contactStatus = "returned" /\ phoneList = <<"7629615", "5551234", "+14047629615">> /\ dedupedPhones = <<"+14047629615", "5551234">>

\* the address of a mailto: href: what follows the scheme, up to any query
MailtoAddress(href) == SubSeq(Drop(href, 7), 1, FirstOf(Drop(href, 7), "?") - 1)

\* local-part@domain.tld, in either case
WellFormedEmail(addr) == isValidEmail(toLowerCase(addr))

\* C18 as stated: for every anchor of the page whose href is mailto:<address>
\* with an optional ?query and a well-formed address, extractContacts returns
\* that address, lower-cased and without the query, in its emails list.
C18_MailtoAddressReturned ==
  (contactMode = "extract" /\ contactStatus = "returned") =>
    \A i \in 1..Len(page.anchors) : \E href \in {page.anchors[i].href} :
      (StartsWith(href, "mailto:") /\ WellFormedEmail(MailtoAddress(href))) => \E k \in 1..Len(contacts.emails) : contacts.emails[k] = toLowerCase(MailtoAddress(href))

\* C19 as stated: extractContacts never throws, whatever the markup: a
\* JSON-LD block that is not valid JSON, or is valid JSON of an unexpected
\* shape (null, a number, an array holding null, a contactPoint that is or
\* holds null), is skipped, and the contacts the other blocks and strategies
\* find are returned (here: the address of the page's mail link).
C19_ExtractContactsNeverThrows ==
  (contactMode = "extract" /\ contactStatus # "none") =>
    /\ contactStatus = "returned"
    /\ \A i \in 1..Len(page.anchors) : page.anchors[i].href = "mailto:info@example.com" => \E k \in 1..Len(contacts.emails) : contacts.emails[k] = "info@example.com"

\* ------------------------------------------------------------------------
\* C20
\* ------------------------------------------------------------------------
\* The call was given no URL: normalizeUrl found nothing to fetch
EmptyUrl == snapPc = "done" /\ normalizedUrl = Null

\* The call was given a text that is not a URL even with a scheme before it
InvalidUrl == normalizedUrl # Null /\ ~IsAbsoluteUrl(normalizedUrl)

\* The base fetch failed: a network error or a timeout, a status outside
\* 2xx, a content type that is not HTML, or a body whose read was aborted
BaseFetchFails ==
  \/ baseAnswer.kind = "throw"
  \/ /\ baseAnswer.kind = "response"
     /\ \/ ~(baseAnswer.status \in 200..299)
        \/ ~(Includes(baseAnswer.contentType, "text/html") \/ Includes(baseAnswer.contentType, "application/xhtml+xml"))
        \/ baseAnswer.error # NoError

\* C20: when scrapeSiteSnapshot has settled for an empty or invalid URL or
\* after a failed base fetch, it has resolved to an object with ok false, a
\* non-empty error text, no extra pages and empty tokens
C20_FailureResolvesToErrorObject ==
  (snapPc = "done" /\ (EmptyUrl \/ InvalidUrl \/ BaseFetchFails)) =>
    /\ snapResult.ok = FALSE
    /\ snapResult.error # Null
    /\ snapResult.error # ""
    /\ snapResult.extraPages = <<>>
    /\ snapResult.tokens = ""

\* C20 witness: the server answered 404 to the base fetch and the call
\* resolved with the status in its error text
C20_NotFoundReported ==
  /\ snapPc = "done"
  /\ baseAnswer.kind = "response"
  /\ baseAnswer.status = 404
  /\ snapResult.ok = FALSE
  /\ snapResult.error = "Fetch failed (404)"

\* ------------------------------------------------------------------------
\* C21
\* ------------------------------------------------------------------------
\* C21: every page fetch eventually completes, as a page or as a fetch
\* failure, even when the server never answers or never ends the body
C21_EveryFetchSettles == <>(fetchPhase = "settled")

\* ------------------------------------------------------------------------
\* C22
\* ------------------------------------------------------------------------
\* C22: when fetchHtmlWithLimits has settled on a body of which more than
\* maxBytes bytes were delivered, at most maxBytes bytes are retained and the
\* fetch is a failure (ok false)
C22_OversizedBodyIsFailure ==
  (fetcher = "fetchHtmlWithLimits" /\ fetchPhase = "settled" /\ totalBytes > maxBytes) =>
    /\ retained <= maxBytes
    /\ fetchStatus = "failed"

\* ------------------------------------------------------------------------
\* C23
\* ------------------------------------------------------------------------
\* the kinds of Google identifiers: the start of the identifier and the
\* label of its entry
GoogleIdKinds == { <<"GTM-", "GTM">>, <<"G-", "GA4">>, <<"UA-", "UA">> }

\* C23: for each kind of Google identifier present in the markup of a page,
\* vendors.tracking of the page has the entry KIND:id1,id2 of the distinct
\* identifiers found
C23_GoogleIdsListed ==
  vendorStatus = "detected" =>
    \A k \in GoogleIdKinds : \A ids \in {unique(MatchAll(vendorHtml, k[1], 1))} :
      ids # <<>> => \E i \in 1..Len(vendorsFound.tracking) : vendorsFound.tracking[i] = k[2] \o ":" \o JoinWith(ids, ",")

\* ------------------------------------------------------------------------
\* C24
\* ------------------------------------------------------------------------
\* processLead of main has returned for lead i after its PageSpeed stage or
\* its signals stage failed
CoreCollectionFailed(i) == returned[i] \in {"ok", "partial", "failed"} /\ (~outputs[i].pagespeed \/ ~outputs[i].signals)

\* the stages a lead has run when the failed core stage was its last
StagesUpToFailure(i) == IF ~outputs[i].pagespeed THEN <<"pagespeed">> ELSE <<"pagespeed", "signals">>

\* C24: in Stage 1 with contact details, a lead whose PageSpeed or signals
\* collection failed is marked failed, has run no later stage, and has a
\* record with the error in its output file
C24_CoreFailureAbortsLead ==
  pipeline = "main" =>
    \A i \in 1..leadCount : CoreCollectionFailed(i) =>
      /\ returned[i] = "failed"
      /\ outputs[i].status = "failed"
      /\ outputs[i].error # Null
      /\ stagesRun[i] = StagesUpToFailure(i)

\* ------------------------------------------------------------------------
\* C26
\* ------------------------------------------------------------------------
\* the place of an event in the log, 0 when it is not there
EventAt(e) == IF \E k \in 1..Len(events) : events[k] = e THEN CHOOSE k \in 1..Len(events) : events[k] = e ELSE 0

\* C26: processBatch starts a lead only after the lead before it has ended,
\* whatever its outcome, and after the delay that follows it; no delay
\* follows the last lead
C26_OneLeadAtATimeWithDelay ==
  pipeline = "processBatch" =>
    /\ \A i \in 2..leadCount : EventAt(<<"start", i>>) > 0 =>
         /\ events[EventAt(<<"start", i>>) - 1] = <<"sleep", i - 1>>
         /\ events[EventAt(<<"start", i>>) - 2] = <<"end", i - 1>>
    /\ EventAt(<<"sleep", leadCount>>) = 0

\* ------------------------------------------------------------------------
\* C27
\* ------------------------------------------------------------------------
\* the call of withRetries has settled
RetrySettled == retryPc \in {"returned", "rejected"}

\* calls of fn and sleeps alternate, starting with a call
CallsAndSleepsAlternate == \A k \in 1..Len(retryLog) : retryLog[k] = IF k % 2 = 1 THEN "fn" ELSE "sleep"

\* what withRetries with maxRetries >= 1 keeps to at every moment
BoundedRetries ==
  /\ Len(fnCalls) <= maxRetries
  /\ CallsAndSleepsAlternate
  /\ \A k \in 1..(Len(fnCalls) - 1) : fnCalls[k] \in FnErrors
  /\ \A k \in 1..Len(delays) : delays[k] = RETRY_DELAY_MS
  /\ retryPc = "returned" =>
       /\ fnCalls[Len(fnCalls)] \in FnValues
       /\ retryResult = fnCalls[Len(fnCalls)]
  /\ retryPc = "rejected" =>
       /\ Len(fnCalls) = maxRetries
       /\ fnCalls[maxRetries] \in FnErrors
       /\ retryResult = fnCalls[maxRetries]
  /\ RetrySettled =>
       /\ Len(delays) = Len(fnCalls) - 1
       /\ retryLog[Len(retryLog)] = "fn"

\* C27: withRetries with n >= 1 calls fn one call at a time at most n times,
\* returns the first value without a further call, waits the same delay
\* between two calls and not after the last, rejects with the last error
\* after n failures, and settles when every call of fn settles
C27_BoundedRetriesAndTermination == [](maxRetries >= 1 => BoundedRetries) /\ <>RetrySettled

\* C27 witness: three failed attempts with two delays between them, rejected
\* with the error of the third
C27_ThreeFailuresLastErrorThrown ==
  /\ maxRetries = 3
  /\ retryPc = "rejected"
  /\ fnCalls = <<"error A", "error B", "error C">>
  /\ retryResult = "error C"
  /\ delays = <<RETRY_DELAY_MS, RETRY_DELAY_MS>>

\* the batch loop went through every file when it is finished, and a file
\* that has resolved is behind the loop
LoopWentOn ==
  /\ \A f \in 1..fileCount : fileStatus[f] # "none" => f < fileIdx
  /\ filePc = "finished" => \A f \in 1..fileCount : fileStatus[f] # "none"

\* C25: in processFile of the batch analysis an error raised while a lead
\* file is loaded or analysed is caught: the error artifact holds the
\* message of that error and a timestamp, processFile resolves with the
\* status failed, and the loop of main goes on to the next file.
C25_ErrorCaughtArtifactWritten ==
  analyzer = "leadPack" =>
    /\ LoopWentOn
    /\ \A f \in 1..fileCount :
         raised[f] # Null =>
           /\ errorPacks[f] = [message |-> raised[f], timestamp |-> TRUE]
           /\ IF f < fileIdx THEN fileStatus[f] = "failed"
              ELSE pending = "failed" /\ filePc = "sleep"

\* C25 witness: the first file failed in its analysis, its artifact is
\* written, and the second file was analysed with success.
C25_FailedFileThenNextAnalysed ==
  /\ analyzer = "leadPack"
  /\ fileCount = 2
  /\ raised[1] = "analyze failed"
  /\ errorPacks[1].message = "analyze failed"
  /\ fileStatus[1] = "failed"
  /\ fileStatus[2] = "success"

\* C30: in processFile of the call reports a scrape that resolves with ok
\* false is called once and no more, does not fail the lead, summarizeSite
\* is not called and the placeholder summary is used, and the lead ends with
\* success when the other steps succeed.
C30_ScrapeNotOkOnceAndLeadGoesOn ==
  analyzer = "callReport" =>
    \A f \in 1..fileCount :
      scrapeResult[f] = "not ok" =>
        /\ scrapeCalls[f] = 1
        /\ raised[f] # "scrape failed"
        /\ ~ \E k \in 1..Len(stepsRun[f]) : stepsRun[f][k] = "summarize"
        /\ (\E k \in 1..Len(stepsRun[f]) : stepsRun[f][k] = "build") => summaries[f] = "placeholder"
        /\ (raised[f] = Null /\ fileStatus[f] # "none") => fileStatus[f] = "success"

\* C30 witness: a lead whose scrape was not ok ended with success, with the
\* placeholder summary and one call of the scrape.
C30_NotOkScrapeLeadSucceeded ==
  /\ analyzer = "callReport"
  /\ scrapeResult[1] = "not ok"
  /\ scrapeCalls[1] = 1
  /\ summaries[1] = "placeholder"
  /\ fileStatus[1] = "success"

\* the merged pages with the two secondary pages in the other order
OtherOrder(ps) == IF Len(ps) = 3 THEN <<ps[1], ps[3], ps[2]>> ELSE ps

\* C28: the tracking map, the set of phones and the set of emails of the
\* returned record are the same when the secondary pages are merged in the
\* other order after the homepage.
C28_MergeOrderIndependent ==
  pc = "done" =>
    \E other \in {MergeAll(createEmptySignalStructure, OtherOrder(pages), websiteUrl)} :
      /\ other.tracking = result.tracking
      /\ SeqToSet(other.contact.phones) = SeqToSet(result.contact.phones)
      /\ SeqToSet(other.contact.emails) = SeqToSet(result.contact.emails)

\* no entry of the list occurs twice
NoDuplicates(q) == \A i \in 1..Len(q), j \in 1..Len(q) : q[i] = q[j] => i = j

\* C29: one run of collectSignals requests no URL twice and merges no URL
\* twice: crawled_pages has no duplicates and at most 3 entries, and the
\* homepage URL is not among the ranked links.
C29_NoUrlFetchedOrMergedTwice ==
  /\ NoDuplicates(UrlsOfEvents(fetchLog, "start"))
  /\ NoDuplicates([i \in 1..Len(mergeLog) |-> mergeLog[i].url])
  /\ pc \in {"merge", "done"} =>
       /\ NoDuplicates(merged.crawled_pages)
       /\ Len(merged.crawled_pages) <= 3
       /\ \A i \in 1..Len(links) : links[i] # websiteUrl

====
